---- MODULE Spec2Model ----
(***************************************************************************)
(* SpecBot: retrieval-augmented question answering over uploaded PDFs.     *)
(* The module models the text segmenter (lib/azure-document.ts), the       *)
(* vector index client with context expansion (lib/pinecone-client.ts),    *)
(* the answer generator (lib/openai.ts), the chat route                    *)
(* (app/api/chat/route.ts), the message loader and the upload route       *)
(* (app/api/conversations/[id]/messages/route.ts), the PDF viewer          *)
(* (components/CustomPDFViewer.tsx) and the citation renderer              *)
(* (components/ChatArea.tsx).                                              *)
(***************************************************************************)
EXTENDS Integers, Sequences, FiniteSets, TLC

(***************************************************************************)
(* Bounds of the model                                                     *)
(***************************************************************************)
MaxPages == 2
MaxParas == 2
MaxTables == 1
MaxSearchParas == 3
MaxTopK == 2
MaxWindow == 1
MaxChatParas == 3
ChatTopK == 2
ChatWindow == 1
MaxStored == 12
MaxContext == 5
MaxPieces == 2
MaxHistory == 6
MaxIngestChunks == 101
MaxUploads == 2
MaxDocsParas == 3
MaxUiSteps == 2
ViewerPages == 2
MaxBubblePieces == 3
MaxBubbleReferences == 2

(***************************************************************************)
(* Generic helpers                                                         *)
(***************************************************************************)
Range(s) == {s[i] : i \in 1..Len(s)}

SeqsUpTo(S, n) == UNION {[1..k -> S] : k \in 0..n}

RECURSIVE Flatten(_)
Flatten(ss) == IF ss = <<>> THEN <<>> ELSE Head(ss) \o Flatten(Tail(ss))

Min2(a, b) == IF a < b THEN a ELSE b

(***************************************************************************)
(* Text Segmenter: lib/azure-document.ts                                   *)
(*                                                                         *)
(* An AnalyzeResult is [pages, paragraphs, tables]. A paragraph is         *)
(* [page, role, content]; content "" is the empty string, " " is           *)
(* whitespace only and "t" is text. A table is [page, cells] where cells   *)
(* is the number of cells.                                                 *)
(***************************************************************************)

\* The characters of a role string; "none" stands for an absent role
RoleText(role) ==
  CASE role = "title" -> <<"t", "i", "t", "l", "e">>
    [] role = "sectionHeading" ->
         <<"s", "e", "c", "t", "i", "o", "n", "H", "e", "a", "d", "i", "n", "g">>
    [] role = "heading2" -> <<"h", "e", "a", "d", "i", "n", "g", "2">>
    [] role = "footnote" -> <<"f", "o", "o", "t", "n", "o", "t", "e">>
    [] role = "pageNumber" -> <<"p", "a", "g", "e", "N", "u", "m", "b", "e", "r">>
    [] OTHER -> <<>>

\* String.prototype.includes
Includes(s, sub) ==
  \E p \in 0..(Len(s) - Len(sub)) : \A k \in 1..Len(sub) : s[p + k] = sub[k]

\* role.includes('1') ? 1 : role.includes('2') ? 2 : 3
HeadingLevel(role) ==
  IF Includes(RoleText(role), <<"1">>) THEN 1
  ELSE IF Includes(RoleText(role), <<"2">>) THEN 2 ELSE 3

\* createParagraphChunk: <<>> stands for null
createParagraphChunk(paragraph, pageNumber, readingOrder) ==
  IF (paragraph.content \in {"", " "}) THEN <<>>
  ELSE IF paragraph.role # "none"
          /\ (\/ Includes(RoleText(paragraph.role), <<"t", "i", "t", "l", "e">>)
              \/ Includes(RoleText(paragraph.role), <<"h", "e", "a", "d", "i", "n", "g">>))
       THEN << [text |-> paragraph.content, pageNumber |-> pageNumber,
                chunkType |-> "heading", readingOrder |-> readingOrder,
                headingLevel |-> HeadingLevel(paragraph.role)] >>
  ELSE IF paragraph.role \in {"footnote", "pageNumber"} THEN <<>>
  ELSE << [text |-> paragraph.content, pageNumber |-> pageNumber,
           chunkType |-> "paragraph", readingOrder |-> readingOrder,
           headingLevel |-> 0] >>

\* createTableChunk: <<>> stands for null
createTableChunk(table, pageNumber, readingOrder) ==
  IF table.cells = 0 THEN <<>>
  ELSE << [text |-> "[TABLE]", pageNumber |-> pageNumber,
           chunkType |-> "table", readingOrder |-> readingOrder,
           headingLevel |-> 0] >>

\* The blocks of one page in the order the loop body visits them:
\* the page's paragraphs, then the page's tables.
PageBlocks(result, pageNumber) ==
  LET ps == SelectSeq(result.paragraphs, LAMBDA p : p.page = pageNumber)
      ts == SelectSeq(result.tables, LAMBDA t : t.page = pageNumber)
  IN  [i \in 1..Len(ps) |-> [kind |-> "paragraph", block |-> ps[i], pageNumber |-> pageNumber]]
      \o [i \in 1..Len(ts) |-> [kind |-> "table", block |-> ts[i], pageNumber |-> pageNumber]]

VisitOrder(result) ==
  Flatten([k \in 1..Len(result.pages) |-> PageBlocks(result, result.pages[k])])

\* The loop of extractChunksFromResult: `readingOrder++` is evaluated as the
\* argument of the create call, before the null test on its result.
RECURSIVE EmitFrom(_, _)
EmitFrom(blocks, readingOrder) ==
  IF blocks = <<>> THEN <<>>
  ELSE LET b == Head(blocks)
           c == IF b.kind = "paragraph"
                THEN createParagraphChunk(b.block, b.pageNumber, readingOrder)
                ELSE createTableChunk(b.block, b.pageNumber, readingOrder)
       IN  c \o EmitFrom(Tail(blocks), readingOrder + 1)

extractChunksFromResult(result) ==
  IF Len(result.pages) = 0 THEN <<>> ELSE EmitFrom(VisitOrder(result), 0)

\* Extraction results: pages 1..P in order, paragraphs and tables listed in
\* page order (the layout service lists content in reading order).
NonDecreasingPages(s) == \A i \in 1..(Len(s) - 1) : s[i].page <= s[i + 1].page

(***************************************************************************)
(* Ingestion results: the upload route and lib/pinecone-client.ts          *)
(***************************************************************************)
DocId == 1

\* The template string `${documentId}-chunk-${n}`; n may be negative or past
\* the end of the document, the string then names no stored vector.
VectorId(documentId, n) == <<documentId, n>>

\* The primary key of a DocumentChunk row (a generated id, not the vector id)
RowId(documentId, chunkIndex) == [doc |-> documentId, row |-> chunkIndex]

\* uploadChunksToPinecone called with the ids the upload route computes:
\* the chunk at 0-based position p gets id `${documentId}-chunk-${p}` and
\* metadata.chunkIndex p
UploadedVectors(documentId, cs) ==
  { [ns |-> documentId,
     id |-> VectorId(documentId, p - 1),
     metadata |-> [documentId |-> documentId, chunkIndex |-> p - 1,
                   text |-> cs[p].text,
                   pageNumber |-> cs[p].pageNumber, chunkType |-> cs[p].chunkType,
                   readingOrder |-> cs[p].readingOrder]] : p \in 1..Len(cs) }

\* prisma.documentChunk.createMany of the upload route
ChunkRows(documentId, cs) ==
  { [id |-> RowId(documentId, p - 1), documentId |-> documentId,
     content |-> cs[p].text,
     pageNumber |-> cs[p].pageNumber, chunkIndex |-> p - 1,
     chunkType |-> cs[p].chunkType, readingOrder |-> cs[p].readingOrder,
     pineconeId |-> VectorId(documentId, p - 1)] : p \in 1..Len(cs) }

\* The batch sizes of the upload route and of uploadChunksToPinecone
EmbedBatchSize == 20
UpsertBatchSize == 100

\* extractedChunks.slice(i, i + size) with a 0-based start i
Slice(s, i, size) == SubSeq(s, i + 1, Min2(i + size, Len(s)))

\* The vector the embedding service computes for a text; texts that differ
\* have vectors that differ
Embedding(text) == <<"embedding", text>>

\* openai.embeddings.create({input: texts}) mapped to the embeddings: the
\* service answers with one vector per input, in input order
generateEmbeddings(texts) == [k \in 1..Len(texts) |-> Embedding(texts[k])]

\* batch.forEach with the batch-local position in place of i + idx
EmbeddedBatchLocalIds(documentId, batch, i, embeddings) ==
  [k \in 1..Len(batch) |->
     [id |-> VectorId(documentId, k - 1), embedding |-> embeddings[k],
      text |-> batch[k].text, pageNumber |-> batch[k].pageNumber,
      chunkType |-> batch[k].chunkType, readingOrder |-> batch[k].readingOrder]]

\* batch.forEach((chunk, idx) => chunksWithEmbeddings.push({id:
\* `${document.id}-chunk-${i + idx}`, embedding: embeddings[idx], ...}))
EmbeddedBatch(documentId, batch, i, embeddings) ==
  [k \in 1..Len(batch) |->
     [id |-> VectorId(documentId, i + k - 1), embedding |-> embeddings[k],
      text |-> batch[k].text, pageNumber |-> batch[k].pageNumber,
      chunkType |-> batch[k].chunkType, readingOrder |-> batch[k].readingOrder]]

\* chunks.map with metadata.chunkIndex taken from readingOrder
PineconeVectorsByReadingOrder(documentId, cs) ==
  [k \in 1..Len(cs) |->
     [ns |-> documentId, id |-> cs[k].id, values |-> cs[k].embedding,
      metadata |-> [documentId |-> documentId, chunkIndex |-> cs[k].readingOrder,
                    text |-> cs[k].text, pageNumber |-> cs[k].pageNumber,
                    chunkType |-> cs[k].chunkType, readingOrder |-> cs[k].readingOrder]]]

\* chunks.map((chunk, idx) => ({id: chunk.id, values: chunk.embedding,
\* metadata: {documentId, chunkIndex: idx, ...}})) of uploadChunksToPinecone;
\* ns is the namespace the batches are upserted into
PineconeVectors(documentId, cs) ==
  [k \in 1..Len(cs) |->
     [ns |-> documentId, id |-> cs[k].id, values |-> cs[k].embedding,
      metadata |-> [documentId |-> documentId, chunkIndex |-> k - 1,
                    text |-> cs[k].text, pageNumber |-> cs[k].pageNumber,
                    chunkType |-> cs[k].chunkType, readingOrder |-> cs[k].readingOrder]]]

\* index.namespace(ns).upsert(batch): a record replaces the record of the
\* namespace that has its id
Upsert(idx, batch) ==
  {v \in idx : ~ \E k \in 1..Len(batch) : batch[k].ns = v.ns /\ batch[k].id = v.id}
    \cup Range(batch)

\* What processPDFWithAzure resolves with for an uploaded file of n usable
\* paragraphs with texts of their own and a footnote after the first of them,
\* fifty paragraphs to a page: the chunks extractChunksFromResult emits; the
\* footnote is dropped and leaves a gap in readingOrder
FileChunks(n) ==
  [k \in 1..n |->
     [text |-> ToString(k), pageNumber |-> 1 + ((k - 1) \div 50),
      chunkType |-> "paragraph", readingOrder |-> IF k = 1 THEN 0 ELSE k,
      headingLevel |-> 0]]

(***************************************************************************)
(* Vector search with context expansion: lib/pinecone-client.ts            *)
(***************************************************************************)
\* Similarity scores, in hundredths
Scores == {50, 100}

NonIncreasing(f) == \A i \in 1..(Len(f) - 1) : f[i] >= f[i + 1]
Injective(f) == \A i, j \in DOMAIN f : i # j => f[i] # f[j]

\* The comparator of expandedChunks.sort: page first, then reading order
DocOrderLess(a, b) ==
  IF a.metadata.pageNumber # b.metadata.pageNumber
  THEN a.metadata.pageNumber < b.metadata.pageNumber
  ELSE a.metadata.readingOrder < b.metadata.readingOrder

\* Array.prototype.sort is stable: insertion after the last element that is
\* not greater
RECURSIVE InsertSorted(_, _)
InsertSorted(sorted, x) ==
  IF sorted = <<>> THEN <<x>>
  ELSE IF DocOrderLess(x, sorted[Len(sorted)])
       THEN InsertSorted(SubSeq(sorted, 1, Len(sorted) - 1), x) \o <<sorted[Len(sorted)]>>
       ELSE Append(sorted, x)

RECURSIVE SortFrom(_, _)
SortFrom(sorted, rest) ==
  IF rest = <<>> THEN sorted ELSE SortFrom(InsertSorted(sorted, Head(rest)), Tail(rest))

SortByDocOrder(s) == SortFrom(<<>>, s)

\* the expansion loops without the fetchedIds test
RECURSIVE SeekFetchNoDedupe(_, _, _, _, _, _)
SeekFetchNoDedupe(m, o, ms, w, fetched, documentId) ==
  IF m > Len(ms) THEN [mi |-> 0, off |-> 0]
  ELSE IF o > w THEN SeekFetchNoDedupe(m + 1, 0 - w, ms, w, fetched, documentId)
  ELSE IF o = 0 THEN SeekFetchNoDedupe(m, o + 1, ms, w, fetched, documentId)
  ELSE [mi |-> m, off |-> o]

\* The position of the next fetch of the expansion loops at or after
\* (m, o): offset 0 and ids already in fetchedIds are passed over without a
\* fetch; mi = 0 when both loops are finished.
RECURSIVE SeekFetch(_, _, _, _, _, _)
SeekFetch(m, o, ms, w, fetched, documentId) ==
  IF m > Len(ms) THEN [mi |-> 0, off |-> 0]
  ELSE IF o > w THEN SeekFetch(m + 1, 0 - w, ms, w, fetched, documentId)
  ELSE IF o = 0 \/ VectorId(documentId, ms[m].metadata.chunkIndex + o) \in fetched
       THEN SeekFetch(m, o + 1, ms, w, fetched, documentId)
  ELSE [mi |-> m, off |-> o]

(***************************************************************************)
(* Answer Generator: lib/openai.ts, chatWithReferences                     *)
(*                                                                         *)
(* A text is a sequence of characters. "x" stands for any character that   *)
(* is neither a bracket nor a digit.                                       *)
(***************************************************************************)
Digits == {"0", "1", "2", "3", "4", "5", "6", "7", "8", "9"}

DigitValue(c) ==
  CASE c = "0" -> 0 [] c = "1" -> 1 [] c = "2" -> 2 [] c = "3" -> 3 [] c = "4" -> 4
    [] c = "5" -> 5 [] c = "6" -> 6 [] c = "7" -> 7 [] c = "8" -> 8 [] c = "9" -> 9

\* parseInt of a string of decimal digits
RECURSIVE parseInt(_)
parseInt(ds) ==
  IF ds = <<>> THEN 0
  ELSE parseInt(SubSeq(ds, 1, Len(ds) - 1)) * 10 + DigitValue(ds[Len(ds)])

\* the first position at or after p that holds no digit
RECURSIVE DigitsEnd(_, _)
DigitsEnd(text, p) ==
  IF p <= Len(text) /\ text[p] \in Digits THEN DigitsEnd(text, p + 1) ELSE p

\* the regular expression \[(\d+)\] applied at position p: the position of the
\* closing bracket, or 0 when it does not match there
MatchEnd(text, p) ==
  IF p <= Len(text) /\ text[p] = "["
  THEN LET q == DigitsEnd(text, p + 1)
       IN  IF q > p + 1 /\ q <= Len(text) /\ text[q] = "]" THEN q ELSE 0
  ELSE 0

\* the loop `while ((match = citationRegex.exec(answer)) !== null)` from
\* lastIndex p: the captured groups of the successive matches, parsed
RECURSIVE CitationNumbers(_, _)
CitationNumbers(text, p) ==
  IF p > Len(text) THEN <<>>
  ELSE LET q == MatchEnd(text, p)
       IN  IF q = 0 THEN CitationNumbers(text, p + 1)
           ELSE <<parseInt(SubSeq(text, p + 1, q - 1))>> \o CitationNumbers(text, q + 1)

\* /\[\d+\]/.test(answer)
hasCitations(text) == \E p \in 1..Len(text) : MatchEnd(text, p) # 0

\* the context index stored as key in place of the citation number
CitedNumbersZeroBased(answer, n) ==
  {c - 1 : c \in {d \in Range(CitationNumbers(answer, 1)) : d > 0 /\ d <= n}}

\* the key set of citationToContextMap
CitedNumbers(answer, n) ==
  {c \in Range(CitationNumbers(answer, 1)) : c > 0 /\ c <= n}

\* references only for the context items whose marker was found
BuildReferencesCitedOnly(answer, context) ==
  LET cited == SelectSeq([i \in 1..Len(context) |-> i],
                         LAMBDA i : i \in CitedNumbers(answer, Len(context)))
  IN  [k \in 1..Len(cited) |->
         [chunkId |-> context[cited[k]].chunkId,
          pageNumber |-> context[cited[k]].pageNumber,
          text |-> context[cited[k]].content,
          relevance |-> 1]]

\* the loop that fills referencedChunks
BuildReferences(answer, context) ==
  [i \in 1..Len(context) |->
     [chunkId |-> context[i].chunkId,
      pageNumber |-> context[i].pageNumber,
      text |-> context[i].content,
      relevance |-> IF i \in CitedNumbers(answer, Len(context)) THEN 1 ELSE 0]]

LastN(s, n) == IF Len(s) <= n THEN s ELSE SubSeq(s, Len(s) - n + 1, Len(s))

\* the messages of the first completion request
FirstMessages(question, conversationHistory) ==
  <<[role |-> "system", content |-> 0]>>
    \o LastN(conversationHistory, 5)
    \o <<[role |-> "user", content |-> question]>>

\* Replies of the language model: concatenations of at most n pieces
Cite(ds) == <<"[">> \o ds \o <<"]">>
RepliesOf(pieces, n) == {Flatten(ps) : ps \in SeqsUpTo(pieces, n)}

VARIABLES result, chunks, segPc,
          index, dbChunks, documents, conversations, uploads,
          sPc, sArgs, matches, expandedChunks, fetchedIds, cursor, sResult, sPath,
          fetchErrors, attempts, sLog,
          gPc, gArgs, sent, llmCalls, firstReply, retryReply, answer, references,
          pc, conversation, messages, conversationMessages, context, refRows, response,
          loaded,
          highlightedReference, scale, currentPage, rendering, effectPending, navPending,
          job, canvas, viewerError, uiSteps,
          content, messageReferences, parts,
          pageTexts, searchText, pageIndex, position, results, findPc

segVars == <<result, chunks, segPc>>
findVars == <<pageTexts, searchText, pageIndex, position, results, findPc>>
storeVars == <<index, dbChunks, documents, conversations, uploads>>
searchVars == <<sPc, sArgs, matches, expandedChunks, fetchedIds, cursor, sResult, sPath,
               fetchErrors, attempts, sLog>>
genVars == <<gPc, gArgs, sent, llmCalls, firstReply, retryReply, answer, references>>
chatVars == <<pc, conversation, messages, conversationMessages, context, refRows, response,
              loaded>>
viewerVars == <<highlightedReference, scale, currentPage, rendering, effectPending,
                navPending, job, canvas, viewerError, uiSteps>>
uiVars == <<viewerVars, content, messageReferences, parts>>
vars == <<segVars, findVars, storeVars, searchVars, genVars, chatVars, uiVars>>

\* a query that is not confined to the namespace
QueryResponsesAnyNamespace(documentId, topK) ==
  LET recs == index
      k == Min2(topK, Cardinality(recs))
  IN  { [i \in 1..k |-> [id |-> pick[i].id, score |-> sc[i], metadata |-> pick[i].metadata]] :
          pick \in {f \in [1..k -> recs] : Injective(f)},
          sc \in {g \in [1..k -> Scores] : NonIncreasing(g)} }

\* index.namespace(documentId).query({vector, topK}): the topK nearest
\* vectors of the namespace (all of them when it holds fewer), most similar
\* first; which ones are nearest depends on the query vector.
QueryResponses(documentId, topK) ==
  LET recs == {v \in index : v.ns = documentId}
      k == Min2(topK, Cardinality(recs))
  IN  { [i \in 1..k |-> [id |-> pick[i].id, score |-> sc[i], metadata |-> pick[i].metadata]] :
          pick \in {f \in [1..k -> recs] : Injective(f)},
          sc \in {g \in [1..k -> Scores] : NonIncreasing(g)} }

SearchIdle ==
  /\ sPc = "idle" /\ sArgs = [documentId |-> 0, topK |-> 0, contextWindow |-> 0]
  /\ matches = <<>> /\ expandedChunks = <<>> /\ fetchedIds = {}
  /\ cursor = [mi |-> 0, off |-> 0] /\ sResult = <<>> /\ sPath = "none"
  /\ fetchErrors = 0 /\ attempts = <<>> /\ sLog = <<>>

\* return of searchWithContext: the locals go out of scope
SearchReturns(value, path) ==
  /\ sPc' = "returned"
  /\ sResult' = value
  /\ sPath' = path
  /\ expandedChunks' = <<>> /\ fetchedIds' = {}
  /\ cursor' = [mi |-> 0, off |-> 0]

\* after one pass of the loop body: go on to the next fetch, or sort and return
ContinueExpansion(exp, fetched, m, o) ==
  LET next == SeekFetch(m, o, matches, sArgs.contextWindow, fetched, sArgs.documentId)
  IN  IF next.mi = 0
      THEN SearchReturns(SortByDocOrder(exp), "expanded")
      ELSE /\ sPc' = "expand"
           /\ expandedChunks' = exp
           /\ fetchedIds' = fetched
           /\ cursor' = next
           /\ UNCHANGED <<sResult, sPath>>

\* searchChunks inside the try block succeeds
QueryOk ==
  /\ sPc = "query"
  /\ \E ms \in QueryResponses(sArgs.documentId, sArgs.topK) :
       /\ matches' = ms
       /\ IF Len(ms) = 0
          THEN SearchReturns(<<>>, "empty")
          ELSE LET ids == {ms[i].id : i \in 1..Len(ms)}
                   next == SeekFetch(1, 0 - sArgs.contextWindow, ms, sArgs.contextWindow,
                                     ids, sArgs.documentId)
               IN  IF next.mi = 0
                   THEN SearchReturns(SortByDocOrder(ms), "expanded")
                   ELSE /\ sPc' = "expand" /\ expandedChunks' = ms /\ fetchedIds' = ids
                        /\ cursor' = next /\ UNCHANGED <<sResult, sPath>>
  /\ UNCHANGED <<sArgs, fetchErrors, attempts, sLog>>
  /\ UNCHANGED <<uiVars, segVars, findVars, storeVars, genVars, chatVars>>

\* a catch block that rethrows in place of the fallback query
QueryFailsRethrows ==
  /\ sPc = "query"
  /\ sPc' = "threw"
  /\ UNCHANGED <<sArgs, matches, expandedChunks, fetchedIds, cursor, sResult, sPath,
                 fetchErrors, attempts, sLog>>
  /\ UNCHANGED <<uiVars, segVars, findVars, storeVars, genVars, chatVars>>

\* searchChunks inside the try block throws: the catch block runs
QueryFails ==
  /\ sPc = "query"
  /\ sPc' = "fallback"
  /\ sLog' = sLog \o <<"Error searching Pinecone:", "Error searching with context:">>
  /\ UNCHANGED <<sArgs, matches, expandedChunks, fetchedIds, cursor, sResult, sPath,
                 fetchErrors, attempts>>
  /\ UNCHANGED <<uiVars, segVars, findVars, storeVars, genVars, chatVars>>

CurrentNeighborId ==
  VectorId(sArgs.documentId, matches[cursor.mi].metadata.chunkIndex + cursor.off)

\* fetch([neighborId]) returns the record
FetchFound ==
  /\ sPc = "expand"
  /\ \E v \in index :
       /\ v.ns = sArgs.documentId /\ v.id = CurrentNeighborId
       /\ ContinueExpansion(
            Append(expandedChunks, [id |-> CurrentNeighborId,
                                    score |-> ((matches[cursor.mi].score * 8) \div 10),
                                    metadata |-> v.metadata]),
            fetchedIds \cup {CurrentNeighborId}, cursor.mi, cursor.off + 1)
  /\ attempts' = Append(attempts, [id |-> CurrentNeighborId, outcome |-> "found"])
  /\ UNCHANGED <<sArgs, matches, fetchErrors, sLog>>
  /\ UNCHANGED <<uiVars, segVars, findVars, storeVars, genVars, chatVars>>

\* fetch([neighborId]) returns no record under that id
FetchMissing ==
  /\ sPc = "expand"
  /\ ~ \E v \in index : v.ns = sArgs.documentId /\ v.id = CurrentNeighborId
  /\ ContinueExpansion(expandedChunks, fetchedIds, cursor.mi, cursor.off + 1)
  /\ attempts' = Append(attempts, [id |-> CurrentNeighborId, outcome |-> "missing"])
  /\ UNCHANGED <<sArgs, matches, fetchErrors, sLog>>
  /\ UNCHANGED <<uiVars, segVars, findVars, storeVars, genVars, chatVars>>

\* an inner catch that hands the error to the catch block of the function
FetchFailsFallsBack ==
  /\ sPc = "expand"
  /\ sPc' = "fallback"
  /\ fetchErrors' = fetchErrors + 1
  /\ attempts' = Append(attempts, [id |-> CurrentNeighborId, outcome |-> "failed"])
  /\ UNCHANGED <<sArgs, matches, expandedChunks, fetchedIds, cursor, sResult, sPath, sLog>>
  /\ UNCHANGED <<uiVars, segVars, findVars, storeVars, genVars, chatVars>>

\* fetch([neighborId]) throws: the inner catch continues with the next offset
FetchFails ==
  /\ sPc = "expand"
  /\ ContinueExpansion(expandedChunks, fetchedIds, cursor.mi, cursor.off + 1)
  /\ fetchErrors' = fetchErrors + 1
  /\ attempts' = Append(attempts, [id |-> CurrentNeighborId, outcome |-> "failed"])
  /\ UNCHANGED <<sArgs, matches, sLog>>
  /\ UNCHANGED <<uiVars, segVars, findVars, storeVars, genVars, chatVars>>

\* the catch block: return searchChunks(documentId, queryEmbedding, topK)
FallbackOk ==
  /\ sPc = "fallback"
  /\ \E ms \in QueryResponses(sArgs.documentId, sArgs.topK) : SearchReturns(ms, "fallback")
  /\ UNCHANGED <<sArgs, matches, fetchErrors, attempts, sLog>>
  /\ UNCHANGED <<uiVars, segVars, findVars, storeVars, genVars, chatVars>>

\* searchChunks of the catch block throws as well: searchWithContext rejects
FallbackFails ==
  /\ sPc = "fallback"
  /\ sPc' = "threw"
  /\ sPath' = "fallback"
  /\ sLog' = Append(sLog, "Error searching Pinecone:")
  /\ UNCHANGED <<sArgs, matches, expandedChunks, fetchedIds, cursor, sResult, fetchErrors,
                 attempts>>
  /\ UNCHANGED <<uiVars, segVars, findVars, storeVars, genVars, chatVars>>

SearchNext ==
  \/ QueryOk \/ QueryFails \/ FetchFound \/ FetchMissing \/ FetchFails
  \/ FallbackOk \/ FallbackFails

\* result is an extraction result with at most maxParas paragraphs and
\* maxTables tables whose last page holds a block
ResultIsDrawn(roles, contents, maxParas, maxTables) ==
  \E P \in 0..MaxPages, np \in 0..maxParas, nt \in 0..maxTables :
    \E ps \in [1..np -> [page : 1..P, role : roles, content : contents]],
       ts \in [1..nt -> [page : 1..P, cells : {0, 2}]] :
      /\ NonDecreasingPages(ps)
      /\ NonDecreasingPages(ts)
      /\ P > 0 => \E k \in 1..(np + nt) : (ps \o ts)[k].page = P
      /\ result = [pages |-> [k \in 1..P |-> k], paragraphs |-> ps, tables |-> ts]

\* The upload requests of the model and the state of one that has not begun
Uploads == 1..MaxUploads

NoUpload ==
  [pc |-> "idle", file |-> 0, document |-> 0, extractedChunks |-> <<>>, i |-> 0,
   chunksWithEmbeddings |-> <<>>, upserted |-> 0, embedCalls |-> 0, failedAt |-> "none",
   rollback |-> "none"]

StoresEmpty ==
  /\ index = {} /\ dbChunks = {} /\ documents = {} /\ conversations = {}
  /\ uploads = [u \in Uploads |-> NoUpload]

\* the stores after the upload route ingested `result` as document DocId
Ingested ==
  /\ chunks = extractChunksFromResult(result)
  /\ segPc = "done"
  /\ index = UploadedVectors(DocId, chunks)
  /\ dbChunks = ChunkRows(DocId, chunks)
  /\ documents = {DocId}
  /\ conversations = {[id |-> DocId, documentId |-> DocId]}
  /\ uploads = [u \in Uploads |-> NoUpload]

NoMessage == [content |-> <<>>, references |-> <<>>]

\* no document is shown and no message bubble is rendered
NoReference == [pageNumber |-> 0, boundingBox |-> [type |-> "null", text |-> "", value |-> <<>>]]
NoJob == [pc |-> "none", page |-> 0, scale |-> <<0, 1>>, reference |-> NoReference]

\* searchTextInPDF is not running
FindIdle ==
  /\ pageTexts = <<>> /\ searchText = <<>> /\ pageIndex = 0 /\ position = 0
  /\ results = <<>> /\ findPc = "idle"

UiIdle ==
  /\ highlightedReference = NoReference /\ scale = <<0, 1>> /\ currentPage = 0
  /\ rendering = FALSE /\ effectPending = FALSE /\ navPending = FALSE
  /\ job = NoJob /\ canvas = <<>>
  /\ viewerError = "" /\ uiSteps = 0
  /\ content = <<>> /\ messageReferences = <<>> /\ parts = <<>>

GenIdle ==
  /\ gPc = "idle"
  /\ gArgs = [question |-> 0, context |-> <<>>, conversationHistory |-> <<>>]
  /\ sent = <<>> /\ llmCalls = 0 /\ firstReply = <<>> /\ retryReply = <<>>
  /\ answer = <<>> /\ references = <<>>

ChatIdle ==
  /\ pc = "idle" /\ conversation = [id |-> 0, documentId |-> 0] /\ messages = <<>>
  /\ conversationMessages = <<>> /\ context = <<>>
  /\ refRows = {} /\ response = NoMessage /\ loaded = NoMessage

(***************************************************************************)
(* chatWithReferences as a process: one step per completion request        *)
(***************************************************************************)
\* the follow-up decided without the test on context.length
LLMFirstReplyRetriesOnEmptyContext(R) ==
  /\ gPc = "first"
  /\ \E r \in R :
       /\ sent' = FirstMessages(gArgs.question, gArgs.conversationHistory)
       /\ llmCalls' = llmCalls + 1
       /\ firstReply' = r
       /\ answer' = r
       /\ IF ~hasCitations(r)
          THEN gPc' = "retry" /\ UNCHANGED references
          ELSE gPc' = "returned" /\ references' = BuildReferences(r, gArgs.context)
  /\ UNCHANGED <<uiVars, gArgs, retryReply, segVars, findVars, storeVars, searchVars, chatVars>>

\* the first completion request returns content r (<<>>: empty or null)
LLMFirstReply(R) ==
  /\ gPc = "first"
  /\ \E r \in R :
       /\ sent' = FirstMessages(gArgs.question, gArgs.conversationHistory)
       /\ llmCalls' = llmCalls + 1
       /\ firstReply' = r
       /\ answer' = r
       /\ IF ~hasCitations(r) /\ Len(gArgs.context) > 0
          THEN gPc' = "retry" /\ UNCHANGED references
          ELSE gPc' = "returned" /\ references' = BuildReferences(r, gArgs.context)
  /\ UNCHANGED <<uiVars, gArgs, retryReply, segVars, findVars, storeVars, searchVars, chatVars>>

\* the first completion request fails: the catch block rethrows
LLMFirstFails ==
  /\ gPc = "first"
  /\ sent' = FirstMessages(gArgs.question, gArgs.conversationHistory)
  /\ llmCalls' = llmCalls + 1
  /\ gPc' = "threw"
  /\ UNCHANGED <<gArgs, firstReply, retryReply, answer, references>>
  /\ UNCHANGED <<uiVars, segVars, findVars, storeVars, searchVars, chatVars>>

\* the follow-up request returns content r: answer = r || answer
LLMRetryReply(R) ==
  /\ gPc = "retry"
  /\ \E r \in R :
       LET final == IF r = <<>> THEN answer ELSE r
       IN  /\ retryReply' = r
           /\ answer' = final
           /\ references' = BuildReferences(final, gArgs.context)
  /\ llmCalls' = llmCalls + 1
  /\ gPc' = "returned"
  /\ UNCHANGED <<gArgs, sent, firstReply>>
  /\ UNCHANGED <<uiVars, segVars, findVars, storeVars, searchVars, chatVars>>

LLMRetryFails ==
  /\ gPc = "retry"
  /\ llmCalls' = llmCalls + 1
  /\ gPc' = "threw"
  /\ UNCHANGED <<gArgs, sent, firstReply, retryReply, answer, references>>
  /\ UNCHANGED <<uiVars, segVars, findVars, storeVars, searchVars, chatVars>>

GenNext(R) ==
  \/ LLMFirstReply(R) \/ LLMFirstFails \/ LLMRetryReply(R) \/ LLMRetryFails

(***************************************************************************)
(* The chat route: app/api/chat/route.ts, POST                             *)
(* and the message loader: app/api/conversations/[id]/messages, GET        *)
(***************************************************************************)

\* searchResults.map(...).filter(Boolean): an item per result that has a
\* DocumentChunk row under its vector id
RECURSIVE BuildContext(_, _)
BuildContext(searchResults, rows) ==
  IF searchResults = <<>> THEN <<>>
  ELSE LET r == Head(searchResults)
           vid == VectorId(r.metadata.documentId, r.metadata.chunkIndex)
           hit == {row \in rows : row.pineconeId = vid}
       IN  (IF hit = {} THEN <<>>
            ELSE <<[content |-> r.metadata.text,
                    pageNumber |-> r.metadata.pageNumber,
                    chunkId |-> (CHOOSE row \in hit : TRUE).id,
                    chunkType |-> r.metadata.chunkType]>>)
           \o BuildContext(Tail(searchResults), rows)

\* conversation.Message.map(msg => ({role, content}))
HistoryOf(ms) == [i \in 1..Len(ms) |-> [role |-> ms[i].role, content |-> ms[i].content]]

\* references.map((ref, index) => ({..., citationIndex: index + 1}))
ReferenceRows(messageId, refs) ==
  { [messageId |-> messageId, chunkId |-> refs[i].chunkId,
     pageNumber |-> refs[i].pageNumber, text |-> refs[i].text,
     relevance |-> refs[i].relevance, citationIndex |-> i] : i \in 1..Len(refs) }

Orderings(S) == {f \in [1..Cardinality(S) -> S] : Injective(f)}

\* `include: { Reference: { orderBy: { pageNumber: 'asc' } } }`: rows by page,
\* rows of one page in no stated order
RowsByPage(rows) ==
  {f \in Orderings(rows) : \A i \in 1..(Len(f) - 1) : f[i].pageNumber <= f[i + 1].pageNumber}

\* conversation.findUnique with its messages, then message.create of the
\* user message
ChatStart ==
  /\ pc = "start"
  /\ conversationMessages' = SubSeq(messages, 1, Min2(10, Len(messages)))
  /\ messages' = Append(messages, [id |-> Len(messages) + 1, role |-> "user",
                                   content |-> Len(messages) + 1])
  /\ pc' = "embed"
  /\ UNCHANGED <<conversation, context, refRows, response, loaded>>
  /\ UNCHANGED <<uiVars, segVars, findVars, storeVars, searchVars, genVars>>

\* generateEmbedding succeeds; searchWithContext is called
EmbedOk(topK, contextWindow) ==
  /\ pc = "embed"
  /\ pc' = "search"
  /\ sPc' = "query"
  /\ sArgs' = [documentId |-> conversation.documentId, topK |-> topK,
               contextWindow |-> contextWindow]
  /\ UNCHANGED <<matches, expandedChunks, fetchedIds, cursor, sResult, sPath, fetchErrors,
                 attempts, sLog>>
  /\ UNCHANGED <<messages, conversation, conversationMessages, context, refRows, response, loaded>>
  /\ UNCHANGED <<uiVars, segVars, findVars, storeVars, genVars>>

\* generateEmbedding throws: the outer catch answers 500
EmbedFails ==
  /\ pc = "embed"
  /\ pc' = "failed"
  /\ UNCHANGED <<messages, conversation, conversationMessages, context, refRows, response, loaded>>
  /\ UNCHANGED <<uiVars, segVars, findVars, storeVars, searchVars, genVars>>

\* searchWithContext rejected: the outer catch answers 500
SearchRejected ==
  /\ pc = "search" /\ sPc = "threw"
  /\ pc' = "failed"
  /\ UNCHANGED <<messages, conversation, conversationMessages, context, refRows, response, loaded>>
  /\ UNCHANGED <<uiVars, segVars, findVars, storeVars, searchVars, genVars>>

\* searchWithContext resolved: chunk rows are looked up, the context and the
\* history are built and chatWithReferences is called
ContextBuilt ==
  /\ pc = "search" /\ sPc = "returned"
  /\ LET ctx == BuildContext(sResult, dbChunks)
     IN  /\ context' = ctx
         /\ gArgs' = [question |-> messages[Len(messages)].content,
                      context |-> ctx,
                      conversationHistory |-> HistoryOf(conversationMessages)]
  /\ gPc' = "first"
  /\ pc' = "generate"
  /\ sPc' = "idle" /\ sResult' = <<>> /\ matches' = <<>> /\ fetchErrors' = 0
  /\ attempts' = <<>> /\ sLog' = <<>>
  /\ UNCHANGED <<sArgs, expandedChunks, fetchedIds, cursor, sPath>>
  /\ UNCHANGED <<sent, llmCalls, firstReply, retryReply, answer, references>>
  /\ UNCHANGED <<messages, conversation, conversationMessages, refRows, response, loaded>>
  /\ UNCHANGED <<uiVars, segVars, findVars, storeVars>>

\* chatWithReferences rejected: the outer catch answers 500
GenerationRejected ==
  /\ pc = "generate" /\ gPc = "threw"
  /\ pc' = "failed"
  /\ UNCHANGED <<messages, conversation, conversationMessages, context, refRows, response, loaded>>
  /\ UNCHANGED <<uiVars, segVars, findVars, storeVars, searchVars, genVars>>

\* chatWithReferences resolved: the assistant message and the reference rows
\* are written, the message is read back with its references and returned
AnswerPersisted ==
  /\ pc = "generate" /\ gPc = "returned"
  /\ LET mid == Len(messages) + 1
         rows == ReferenceRows(mid, references)
     IN  /\ messages' = Append(messages, [id |-> mid, role |-> "assistant", content |-> mid])
         /\ refRows' = refRows \cup rows
         /\ \E order \in Orderings(rows) :
              response' = [content |-> answer, references |-> order]
  /\ pc' = "done"
  /\ UNCHANGED <<conversation, conversationMessages, context, loaded>>
  /\ UNCHANGED <<uiVars, segVars, findVars, storeVars, searchVars, genVars>>

\* the assistant message is written and reference.createMany rejects: the
\* outer catch answers 500
ReferencesRejected ==
  /\ pc = "generate" /\ gPc = "returned" /\ Len(references) > 0
  /\ messages' = Append(messages, [id |-> Len(messages) + 1, role |-> "assistant",
                                   content |-> Len(messages) + 1])
  /\ pc' = "failed"
  /\ UNCHANGED <<conversation, conversationMessages, context, refRows, response, loaded>>
  /\ UNCHANGED <<uiVars, segVars, findVars, storeVars, searchVars, genVars>>

\* GET /api/conversations/[id]/messages after the request: the answer as the
\* client receives it when it loads the conversation
MessagesLoaded ==
  /\ pc \in {"done", "loaded"}
  /\ LET mid == messages[Len(messages)].id
         rows == {r \in refRows : r.messageId = mid}
     IN  \E order \in RowsByPage(rows) :
           loaded' = [content |-> answer, references |-> order]
  /\ pc' = "loaded"
  /\ UNCHANGED <<messages, conversation, conversationMessages, context, refRows, response>>
  /\ UNCHANGED <<uiVars, segVars, findVars, storeVars, searchVars, genVars>>

StoredMessages(n) ==
  [k \in 1..n |-> [id |-> k, role |-> IF k % 2 = 1 THEN "user" ELSE "assistant",
                   content |-> k]]

Next ==
  \/ ChatStart \/ EmbedOk(ChatTopK, ChatWindow) \/ EmbedFails
  \/ SearchNext \/ SearchRejected \/ ContextBuilt
  \/ GenNext(RepliesOf({Cite(<<"1">>), Cite(<<"3">>), <<"x">>}, 1)) \/ GenerationRejected
  \/ AnswerPersisted \/ ReferencesRejected \/ MessagesLoaded

\* A chat request on a conversation of an ingested document: any document
\* with a new or a short conversation, or a one-paragraph document with a
\* conversation that holds any number of earlier messages
Init ==
  /\ \/ /\ ResultIsDrawn({"none", "footnote"}, {"t"}, MaxChatParas, 0)
        /\ \E n \in {0, 2} : messages = StoredMessages(n)
     \/ /\ ResultIsDrawn({"none"}, {"t"}, 1, 0)
        /\ Len(result.paragraphs) = 1
        /\ \E n \in 0..MaxStored : messages = StoredMessages(n)
  /\ Ingested
  /\ SearchIdle
  /\ GenIdle
  /\ pc = "start"
  /\ conversation \in conversations
  /\ conversationMessages = <<>> /\ context = <<>>
  /\ refRows = {} /\ response = NoMessage /\ loaded = NoMessage
  /\ UiIdle
  /\ FindIdle

Spec == Init /\ [][Next]_vars

\* A chat request on a conversation of either of two ingested documents
DocsInit ==
  /\ result = [pages |-> <<>>, paragraphs |-> <<>>, tables |-> <<>>]
  /\ chunks = <<>> /\ segPc = "done"
  /\ \E n \in 0..MaxDocsParas, m \in 0..MaxDocsParas :
       /\ index = UploadedVectors(1, FileChunks(n)) \cup UploadedVectors(2, FileChunks(m))
       /\ dbChunks = ChunkRows(1, FileChunks(n)) \cup ChunkRows(2, FileChunks(m))
  /\ documents = {1, 2}
  /\ conversations = {[id |-> d, documentId |-> d] : d \in {1, 2}}
  /\ uploads = [u \in Uploads |-> NoUpload]
  /\ SearchIdle
  /\ GenIdle
  /\ pc = "start"
  /\ conversation \in conversations
  /\ messages = <<>> /\ conversationMessages = <<>> /\ context = <<>>
  /\ refRows = {} /\ response = NoMessage /\ loaded = NoMessage
  /\ UiIdle
  /\ FindIdle

SpecDocs == DocsInit /\ [][Next]_vars

SegInit ==
  /\ ResultIsDrawn({"none", "title", "sectionHeading", "heading2", "footnote", "pageNumber"},
                   {"", " ", "t"}, MaxParas, MaxTables)
  /\ chunks = <<>>
  /\ segPc = "start"
  /\ StoresEmpty
  /\ SearchIdle
  /\ GenIdle
  /\ ChatIdle
  /\ UiIdle
  /\ FindIdle

ExtractChunks ==
  /\ segPc = "start"
  /\ chunks' = extractChunksFromResult(result)
  /\ segPc' = "done"
  /\ UNCHANGED <<uiVars, findVars, result, storeVars, searchVars, genVars, chatVars>>

SpecSeg == SegInit /\ [][ExtractChunks]_vars

\* A search on an ingested document, called with any topK and window
SearchInit ==
  /\ ResultIsDrawn({"none", "footnote"}, {"t"}, MaxSearchParas, 0)
  /\ Ingested
  /\ sPc = "query"
  /\ \E k \in 1..MaxTopK, w \in 0..MaxWindow :
       sArgs = [documentId |-> DocId, topK |-> k, contextWindow |-> w]
  /\ matches = <<>> /\ expandedChunks = <<>> /\ fetchedIds = {}
  /\ cursor = [mi |-> 0, off |-> 0] /\ sResult = <<>> /\ sPath = "none"
  /\ fetchErrors = 0 /\ attempts = <<>> /\ sLog = <<>>
  /\ GenIdle
  /\ ChatIdle
  /\ UiIdle
  /\ FindIdle

SpecSearch == SearchInit /\ [][SearchNext]_vars

\* chatWithReferences called with any context, history and reply texts
GenContexts ==
  { [i \in 1..n |-> [content |-> "t", pageNumber |-> 1 + ((i - 1) \div 2),
                     chunkId |-> RowId(DocId, n - i), chunkType |-> "paragraph"]]
    : n \in 0..MaxContext }

GenInit ==
  /\ result = [pages |-> <<>>, paragraphs |-> <<>>, tables |-> <<>>]
  /\ chunks = <<>> /\ segPc = "done"
  /\ StoresEmpty
  /\ SearchIdle
  /\ ChatIdle
  /\ gPc = "first"
  /\ \E ctx \in GenContexts, h \in {MaxHistory} :
       gArgs = [question |-> h + 1, context |-> ctx,
                conversationHistory |-> HistoryOf(StoredMessages(h))]
  /\ sent = <<>> /\ llmCalls = 0 /\ firstReply = <<>> /\ retryReply = <<>>
  /\ answer = <<>> /\ references = <<>>
  /\ UiIdle
  /\ FindIdle

SpecGen ==
  GenInit
    /\ [][GenNext(RepliesOf({Cite(<<"1">>), Cite(<<"3">>), Cite(<<"0">>), Cite(<<"0", "1">>),
                             Cite(<<"1", "2">>), <<"x">>, <<"[">>, <<"]">>, <<"1">>},
                            MaxPieces))]_vars

(***************************************************************************)
(* The upload route as a process: one step per awaited call. Every         *)
(* awaited call of a service or of the database may reject.                *)
(***************************************************************************)

SetUpload(u, next) == uploads' = [uploads EXCEPT ![u] = next]

\* an awaited call inside the inner try block rejects: its catch block runs
Rejected(u, step) ==
  /\ SetUpload(u, [uploads[u] EXCEPT !.pc = "rollback", !.failedAt = step])
  /\ UNCHANGED <<index, dbChunks, documents, conversations>>
  /\ UNCHANGED <<uiVars, segVars, findVars, searchVars, genVars, chatVars>>

\* prisma.document.create
CreateDocument(u) ==
  /\ uploads[u].pc = "create"
  /\ documents' = documents \cup {u}
  /\ SetUpload(u, [uploads[u] EXCEPT !.pc = "extract", !.document = u])
  /\ UNCHANGED <<index, dbChunks, conversations>>
  /\ UNCHANGED <<uiVars, segVars, findVars, searchVars, genVars, chatVars>>

\* prisma.document.create rejects: the outer catch answers 500
CreateDocumentFails(u) ==
  /\ uploads[u].pc = "create"
  /\ SetUpload(u, [uploads[u] EXCEPT !.pc = "failed", !.failedAt = "create"])
  /\ UNCHANGED <<index, dbChunks, documents, conversations>>
  /\ UNCHANGED <<uiVars, segVars, findVars, searchVars, genVars, chatVars>>

\* an ingestion that requests an embedding of an empty batch
ExtractOkEmbedsAnyway(u) ==
  /\ uploads[u].pc = "extract"
  /\ LET cs == IF result.pages = <<>> THEN FileChunks(uploads[u].file)
               ELSE extractChunksFromResult(result)
     IN  SetUpload(u, [uploads[u] EXCEPT !.extractedChunks = cs, !.pc = "embed"])
  /\ UNCHANGED <<index, dbChunks, documents, conversations>>
  /\ UNCHANGED <<uiVars, segVars, findVars, searchVars, genVars, chatVars>>

\* processPDFWithAzure resolves with the chunks of the file: those of the
\* analysis result when one is drawn, else the chunk family of the file's size
ExtractOk(u) ==
  /\ uploads[u].pc = "extract"
  /\ LET cs == IF result.pages = <<>> THEN FileChunks(uploads[u].file)
               ELSE extractChunksFromResult(result)
     IN  SetUpload(u, [uploads[u] EXCEPT !.extractedChunks = cs,
                                         !.pc = IF Len(cs) = 0 THEN "rows" ELSE "embed"])
  /\ UNCHANGED <<index, dbChunks, documents, conversations>>
  /\ UNCHANGED <<uiVars, segVars, findVars, searchVars, genVars, chatVars>>

ExtractFails(u) == uploads[u].pc = "extract" /\ Rejected(u, "extract")

\* one pass of the embedding loop
EmbedBatchOk(u) ==
  /\ uploads[u].pc = "embed"
  /\ LET up == uploads[u]
         batch == Slice(up.extractedChunks, up.i, EmbedBatchSize)
         embeddings == generateEmbeddings([k \in 1..Len(batch) |-> batch[k].text])
         i == up.i + EmbedBatchSize
     IN  SetUpload(u, [up EXCEPT
           !.chunksWithEmbeddings = @ \o EmbeddedBatch(up.document, batch, up.i, embeddings),
           !.i = i,
           !.embedCalls = @ + 1,
           !.pc = IF i < Len(up.extractedChunks) THEN "embed" ELSE "upsert"])
  /\ UNCHANGED <<index, dbChunks, documents, conversations>>
  /\ UNCHANGED <<uiVars, segVars, findVars, searchVars, genVars, chatVars>>

\* a loop that goes on to the next batch when generateEmbeddings rejects
EmbedBatchFailsSkipsBatch(u) ==
  /\ uploads[u].pc = "embed"
  /\ LET up == uploads[u]
         i == up.i + EmbedBatchSize
     IN  SetUpload(u, [up EXCEPT !.i = i, !.failedAt = "embed", !.embedCalls = @ + 1,
                                 !.pc = IF i < Len(up.extractedChunks) THEN "embed"
                                        ELSE "upsert"])
  /\ UNCHANGED <<index, dbChunks, documents, conversations>>
  /\ UNCHANGED <<uiVars, segVars, findVars, searchVars, genVars, chatVars>>

\* generateEmbeddings rejects
EmbedBatchFails(u) ==
  /\ uploads[u].pc = "embed"
  /\ SetUpload(u, [uploads[u] EXCEPT !.pc = "rollback", !.failedAt = "embed",
                                     !.embedCalls = @ + 1])
  /\ UNCHANGED <<index, dbChunks, documents, conversations>>
  /\ UNCHANGED <<uiVars, segVars, findVars, searchVars, genVars, chatVars>>

\* one pass of the upsert loop of uploadChunksToPinecone
UpsertBatchOk(u) ==
  /\ uploads[u].pc = "upsert"
  /\ LET up == uploads[u]
         vectors == PineconeVectors(up.document, up.chunksWithEmbeddings)
         i == up.upserted + UpsertBatchSize
     IN  /\ index' = Upsert(index, Slice(vectors, up.upserted, UpsertBatchSize))
         /\ SetUpload(u, [up EXCEPT !.upserted = Min2(i, Len(vectors)),
                                    !.pc = IF i < Len(vectors) THEN "upsert" ELSE "rows"])
  /\ UNCHANGED <<dbChunks, documents, conversations>>
  /\ UNCHANGED <<uiVars, segVars, findVars, searchVars, genVars, chatVars>>

\* upsert rejects: uploadChunksToPinecone throws
UpsertBatchFails(u) == uploads[u].pc = "upsert" /\ Rejected(u, "upsert")

\* prisma.documentChunk.createMany
ChunkRowsWritten(u) ==
  /\ uploads[u].pc = "rows"
  /\ dbChunks' = dbChunks \cup ChunkRows(uploads[u].document, uploads[u].extractedChunks)
  /\ SetUpload(u, [uploads[u] EXCEPT !.pc = "conversation"])
  /\ UNCHANGED <<index, documents, conversations>>
  /\ UNCHANGED <<uiVars, segVars, findVars, searchVars, genVars, chatVars>>

ChunkRowsFail(u) == uploads[u].pc = "rows" /\ Rejected(u, "rows")

\* prisma.conversation.create, then the response
ConversationCreated(u) ==
  /\ uploads[u].pc = "conversation"
  /\ conversations' = conversations \cup
       {[id |-> uploads[u].document, documentId |-> uploads[u].document]}
  /\ SetUpload(u, [uploads[u] EXCEPT !.pc = "done"])
  /\ UNCHANGED <<index, dbChunks, documents>>
  /\ UNCHANGED <<uiVars, segVars, findVars, searchVars, genVars, chatVars>>

ConversationFails(u) == uploads[u].pc = "conversation" /\ Rejected(u, "conversation")

\* a catch block that clears the chunk table
DocumentDeletedWithAllChunks(u) ==
  /\ uploads[u].pc = "rollback"
  /\ documents' = documents \ {uploads[u].document}
  /\ dbChunks' = {}
  /\ conversations' = {c \in conversations : c.documentId # uploads[u].document}
  /\ SetUpload(u, [uploads[u] EXCEPT !.pc = "failed", !.rollback = "deleted"])
  /\ UNCHANGED index
  /\ UNCHANGED <<uiVars, segVars, findVars, searchVars, genVars, chatVars>>

\* the catch block: prisma.document.delete, which the schema cascades to the
\* chunk rows and the conversations of the document; the error is thrown on
\* and the outer catch answers 500
DocumentDeleted(u) ==
  /\ uploads[u].pc = "rollback"
  /\ documents' = documents \ {uploads[u].document}
  /\ dbChunks' = {r \in dbChunks : r.documentId # uploads[u].document}
  /\ conversations' = {c \in conversations : c.documentId # uploads[u].document}
  /\ SetUpload(u, [uploads[u] EXCEPT !.pc = "failed", !.rollback = "deleted"])
  /\ UNCHANGED index
  /\ UNCHANGED <<uiVars, segVars, findVars, searchVars, genVars, chatVars>>

\* prisma.document.delete rejects inside the catch block: the outer catch
\* answers 500
DocumentDeleteFails(u) ==
  /\ uploads[u].pc = "rollback"
  /\ SetUpload(u, [uploads[u] EXCEPT !.pc = "failed", !.rollback = "rejected"])
  /\ UNCHANGED <<index, dbChunks, documents, conversations>>
  /\ UNCHANGED <<uiVars, segVars, findVars, searchVars, genVars, chatVars>>

\* Upload requests, received together, of files of their own
UploadInit ==
  /\ result = [pages |-> <<>>, paragraphs |-> <<>>, tables |-> <<>>]
  /\ chunks = <<>> /\ segPc = "done"
  /\ index = {} /\ dbChunks = {} /\ documents = {} /\ conversations = {}
  /\ \E n \in {0, 1, EmbedBatchSize, EmbedBatchSize + 1, MaxIngestChunks},
        m \in {0, EmbedBatchSize + 1} :
       uploads = [u \in Uploads |->
                    [NoUpload EXCEPT !.pc = "create", !.file = IF u = 1 THEN n ELSE m]]
  /\ SearchIdle
  /\ GenIdle
  /\ ChatIdle
  /\ UiIdle
  /\ FindIdle

SpecUpload ==
  UploadInit
    /\ [][\E u \in Uploads :
            \/ CreateDocument(u) \/ CreateDocumentFails(u)
            \/ ExtractOk(u) \/ ExtractFails(u)
            \/ EmbedBatchOk(u) \/ EmbedBatchFails(u)
            \/ UpsertBatchOk(u) \/ UpsertBatchFails(u)
            \/ ChunkRowsWritten(u) \/ ChunkRowsFail(u)
            \/ ConversationCreated(u) \/ ConversationFails(u)
            \/ DocumentDeleted(u) \/ DocumentDeleteFails(u)]_vars

\* An upload of a small file, and a chat request on the conversation it made
PipelineInit ==
  /\ ResultIsDrawn({"none", "footnote"}, {"t"}, MaxChatParas, 0)
  /\ chunks = <<>> /\ segPc = "done"
  /\ index = {} /\ dbChunks = {} /\ documents = {} /\ conversations = {}
  /\ uploads = [u \in Uploads |-> IF u = 1 THEN [NoUpload EXCEPT !.pc = "create"]
                                   ELSE NoUpload]
  /\ SearchIdle
  /\ GenIdle
  /\ ChatIdle
  /\ UiIdle
  /\ FindIdle

\* POST /api/chat arrives for a conversation of the store
ChatOpened ==
  /\ pc = "idle"
  /\ conversation' \in conversations
  /\ pc' = "start"
  /\ UNCHANGED <<messages, conversationMessages, context, refRows, response, loaded>>
  /\ UNCHANGED <<uiVars, segVars, findVars, storeVars, searchVars, genVars>>

SpecPipeline ==
  PipelineInit
    /\ [][\/ \E u \in Uploads :
               \/ CreateDocument(u) \/ CreateDocumentFails(u)
               \/ ExtractOk(u) \/ ExtractFails(u)
               \/ EmbedBatchOk(u) \/ EmbedBatchFails(u)
               \/ UpsertBatchOk(u) \/ UpsertBatchFails(u)
               \/ ChunkRowsWritten(u) \/ ChunkRowsFail(u)
               \/ ConversationCreated(u) \/ ConversationFails(u)
               \/ DocumentDeleted(u) \/ DocumentDeleteFails(u)
          \/ ChatOpened \/ Next]_vars

(***************************************************************************)
(* The PDF viewer: components/CustomPDFViewer.tsx                          *)
(*                                                                         *)
(* Numbers of the viewer are exact rationals <<n, d>> in lowest terms with *)
(* d > 0. A stored bounding box is [type, text, value]: null, a string     *)
(* whose text is "" (empty), "garbage" (no JSON), "object" (JSON of        *)
(* something that is no array) or "array" (JSON of the array in value),    *)
(* or an array already parsed.                                             *)
(***************************************************************************)
RECURSIVE GCD(_, _)
GCD(a, b) == IF b = 0 THEN a ELSE GCD(b, a % b)

Q(n, d) ==
  LET g == GCD((IF n < 0 THEN 0 - n ELSE n), (IF d < 0 THEN 0 - d ELSE d))
      s == IF d < 0 THEN 0 - 1 ELSE 1
  IN  <<(s * n) \div g, (s * d) \div g>>

QAdd(a, b) == Q(a[1] * b[2] + b[1] * a[2], a[2] * b[2])
QSub(a, b) == Q(a[1] * b[2] - b[1] * a[2], a[2] * b[2])
QMul(a, b) == Q(a[1] * b[1], a[2] * b[2])
QDiv(a, b) == Q(a[1] * b[2], a[2] * b[1])
QLe(a, b) == a[1] * b[2] <= b[1] * a[2]
\* Math.min and Math.max
QMin(S) == CHOOSE q \in S : \A r \in S : QLe(q, r)
QMax(S) == CHOOSE q \in S : \A r \in S : QLe(r, q)

getViewport(page, s) ==
  [width |-> QMul(Q(100, 1), s), height |-> QMul(Q((50 * page), 1), s)]

BoxNull == [type |-> "null", text |-> "", value |-> <<>>]
\* JSON.stringify of a polygon, the stored form of the chunk rows
JSONstringify(polygon) == [type |-> "string", text |-> ("array"), value |-> polygon]
\* JSON.parse: [threw, isArray, value]
JSONparse(box) ==
  CASE box.text = "array" -> [threw |-> FALSE, isArray |-> TRUE, value |-> box.value]
    [] box.text = "object" -> [threw |-> FALSE, isArray |-> FALSE, value |-> <<>>]
    [] OTHER -> [threw |-> TRUE, isArray |-> FALSE, value |-> <<>>]

\* lines 118-136: the screen rectangle of a polygon of at least 8 numbers
HighlightRectUnscaledHeight(boundingBox, s, viewportHeight) ==
  LET pageHeight == viewportHeight
      x(k) == QMul(Q(boundingBox[2 * k - 1], 1), s)
      y(k) == QMul(QSub(pageHeight, Q(boundingBox[2 * k], 1)), s)
      xs == {x(k) : k \in 1..4}
      ys == {y(k) : k \in 1..4}
  IN  [x |-> QMin(xs), y |-> QMin(ys),
       width |-> QSub(QMax(xs), QMin(xs)), height |-> QSub(QMax(ys), QMin(ys))]

HighlightRect(boundingBox, s, viewportHeight) ==
  LET pageHeight == QDiv(viewportHeight, s)
      x(k) == QMul(Q(boundingBox[2 * k - 1], 1), s)
      y(k) == QMul(QSub(pageHeight, Q(boundingBox[2 * k], 1)), s)
      xs == {x(k) : k \in 1..4}
      ys == {y(k) : k \in 1..4}
  IN  [x |-> QMin(xs), y |-> QMin(ys),
       width |-> QSub(QMax(xs), QMin(xs)), height |-> QSub(QMax(ys), QMin(ys))]

\* lines 105-168: what is drawn over the rendered page: [rects, threw], where
\* threw tells that the inner try block caught an exception
DrawHighlightWithoutLengthTest(reference, page, s, viewport) ==
  IF /\ reference # NoReference /\ reference.pageNumber = page
     /\ \/ reference.boundingBox.type = "array"
        \/ reference.boundingBox.type = "string" /\ reference.boundingBox.text # ""
  THEN LET box == reference.boundingBox
           parsed == IF box.type = "string" THEN JSONparse(box)
                     ELSE [threw |-> FALSE, isArray |-> TRUE, value |-> box.value]
       IN  IF parsed.threw THEN [rects |-> <<>>, threw |-> TRUE]
           ELSE IF parsed.isArray
                THEN [rects |-> <<HighlightRect(
                                    [k \in 1..8 |-> IF k <= Len(parsed.value)
                                                    THEN parsed.value[k] ELSE 0],
                                    s, viewport.height)>>,
                      threw |-> FALSE]
                ELSE [rects |-> <<>>, threw |-> FALSE]
  ELSE [rects |-> <<>>, threw |-> FALSE]

DrawHighlight(reference, page, s, viewport) ==
  IF /\ reference # NoReference /\ reference.pageNumber = page
     /\ \/ reference.boundingBox.type = "array"
        \/ reference.boundingBox.type = "string" /\ reference.boundingBox.text # ""
  THEN LET box == reference.boundingBox
           parsed == IF box.type = "string" THEN JSONparse(box)
                     ELSE [threw |-> FALSE, isArray |-> TRUE, value |-> box.value]
       IN  IF parsed.threw THEN [rects |-> <<>>, threw |-> TRUE]
           ELSE IF parsed.isArray /\ Len(parsed.value) >= 8
                THEN [rects |-> <<HighlightRect(parsed.value, s, viewport.height)>>,
                      threw |-> FALSE]
                ELSE [rects |-> <<>>, threw |-> FALSE]
  ELSE [rects |-> <<>>, threw |-> FALSE]

\* lib/azure-document.ts, getBoundingBoxCoordinates: <<>> stands for null
getBoundingBoxCoordinates(box) ==
  IF box.type = "null" \/ Len(box.value) < 8 THEN <<>>
  ELSE LET xs == {box.value[2 * k - 1] : k \in 1..4}
           ys == {box.value[2 * k] : k \in 1..4}
           min(S) == CHOOSE a \in S : \A b \in S : a <= b
           max(S) == CHOOSE a \in S : \A b \in S : a >= b
       IN  <<[x |-> min(xs), y |-> min(ys),
              width |-> max(xs) - min(xs), height |-> max(ys) - min(ys)]>>

ViewerReferences ==
  LET polygons == { <<0, 0, 100, 0, 100, 50, 0, 50>>,
                    <<100, 50, 0, 50, 0, 0, 100, 0>>,
                    <<10, 20, 90, 5, 100, 45, 0, 40>>,
                    <<20, 10, 60, 10, 60, 30, 20, 30, 7, 7>> }
      text(t) == [type |-> "string", text |-> t, value |-> <<>>]
      array(a) == [type |-> "array", text |-> "", value |-> a]
      boxes == {JSONstringify(p) : p \in polygons}
                 \cup { array(<<30, 30, 30, 30, 30, 30, 30, 30>>), BoxNull, text(""),
                        text("garbage"), text("object"), JSONstringify(<<>>),
                        JSONstringify(<<0, 0, 100, 0, 100, 50>>),
                        array(<<0, 0, 100, 0, 100, 50>>), array(<<>>) }
  IN  {NoReference} \cup
      {[pageNumber |-> p, boundingBox |-> b] : p \in 1..(ViewerPages + 1), b \in boxes}

\* the state after the document loaded: setPdfDoc, setNumPages, setCurrentPage(1)
ViewerInit ==
  /\ result = [pages |-> <<>>, paragraphs |-> <<>>, tables |-> <<>>]
  /\ chunks = <<>> /\ segPc = "done"
  /\ StoresEmpty /\ SearchIdle /\ GenIdle /\ ChatIdle
  /\ content = <<>> /\ messageReferences = <<>> /\ parts = <<>>
  /\ highlightedReference \in ViewerReferences
  /\ scale = <<3, 2>> /\ currentPage = 1
  /\ rendering = FALSE /\ effectPending = TRUE
  /\ navPending = (highlightedReference # NoReference)
  /\ job = NoJob
  /\ canvas = [page |-> 0, scale |-> <<0, 1>>, width |-> 300, height |-> 150,
               viewportHeight |-> <<0, 1>>, rendered |-> FALSE, highlight |-> <<>>,
               scrollTop |-> <<0, 1>>, caught |-> FALSE]
  /\ viewerError = "" /\ uiSteps = 0
  /\ FindIdle

\* the render effect runs while a render is under way, and returns
EffectSkipped ==
  /\ effectPending /\ rendering
  /\ effectPending' = FALSE
  /\ UNCHANGED <<highlightedReference, scale, currentPage, rendering, navPending, job,
                 canvas, viewerError, uiSteps>>
  /\ UNCHANGED <<content, messageReferences, parts, segVars, findVars, storeVars,
                 searchVars, genVars, chatVars>>

\* the render effect starts renderPage: setRendering(true), getPage requested
RenderStart ==
  /\ effectPending /\ ~rendering
  /\ rendering' = TRUE
  /\ job' = [pc |-> "getPage", page |-> currentPage, scale |-> scale,
            reference |-> highlightedReference]
  /\ effectPending' = TRUE
  /\ UNCHANGED <<highlightedReference, scale, currentPage, navPending, canvas, viewerError,
                 uiSteps>>
  /\ UNCHANGED <<content, messageReferences, parts, segVars, findVars, storeVars,
                 searchVars, genVars, chatVars>>

\* the navigation effect, which runs after the render effect
NavigationEffect ==
  /\ navPending /\ ~effectPending
  /\ navPending' = FALSE
  /\ IF highlightedReference # NoReference /\ highlightedReference.pageNumber >= 1
        /\ highlightedReference.pageNumber <= ViewerPages
     THEN /\ currentPage' = highlightedReference.pageNumber
          /\ effectPending' = (currentPage' # currentPage)
     ELSE UNCHANGED <<currentPage, effectPending>>
  /\ UNCHANGED <<highlightedReference, scale, rendering, job, canvas, viewerError, uiSteps>>
  /\ UNCHANGED <<content, messageReferences, parts, segVars, findVars, storeVars,
                 searchVars, genVars, chatVars>>

\* pdfDoc.getPage resolves: the canvas is sized and cleared, page.render requested
PageLoaded ==
  /\ job.pc = "getPage"
  /\ LET viewport == getViewport(job.page, job.scale)
     IN  canvas' = [page |-> job.page, scale |-> job.scale,
                    width |-> (viewport.width[1] \div viewport.width[2]),
                    height |-> (viewport.height[1] \div viewport.height[2]),
                    viewportHeight |-> viewport.height,
                    rendered |-> FALSE, highlight |-> <<>>, scrollTop |-> canvas.scrollTop,
                    caught |-> FALSE]
  /\ job' = [job EXCEPT !.pc = "render"]
  /\ UNCHANGED <<highlightedReference, scale, currentPage, rendering, effectPending,
                 navPending, viewerError, uiSteps>>
  /\ UNCHANGED <<content, messageReferences, parts, segVars, findVars, storeVars,
                 searchVars, genVars, chatVars>>

\* the outer catch and the finally block
RenderFails ==
  /\ job.pc \in {"getPage", "render"}
  /\ viewerError' = "Failed to render page"
  /\ rendering' = FALSE /\ effectPending' = TRUE
  /\ job' = NoJob
  /\ UNCHANGED <<highlightedReference, scale, currentPage, navPending, canvas, uiSteps>>
  /\ UNCHANGED <<content, messageReferences, parts, segVars, findVars, storeVars,
                 searchVars, genVars, chatVars>>

\* page.render resolves: the highlight is drawn, then the finally block runs
PageRendered ==
  /\ job.pc = "render"
  /\ LET viewport == getViewport(job.page, job.scale)
         drawn == DrawHighlight(job.reference, job.page, job.scale, viewport)
     IN  canvas' = [canvas EXCEPT
                      !.rendered = TRUE,
                      !.highlight = drawn.rects,
                      !.caught = drawn.threw,
                      !.scrollTop = IF drawn.rects = <<>> THEN @
                                    ELSE QMax({<<0, 1>>,
                                               QSub(drawn.rects[1].y, <<100, 1>>)})]
  /\ rendering' = FALSE /\ effectPending' = TRUE
  /\ job' = NoJob
  /\ UNCHANGED <<highlightedReference, scale, currentPage, navPending, viewerError, uiSteps>>
  /\ UNCHANGED <<content, messageReferences, parts, segVars, findVars, storeVars,
                 searchVars, genVars, chatVars>>

UiStep(newScale, newPage) ==
  /\ uiSteps < MaxUiSteps
  /\ uiSteps' = uiSteps + 1
  /\ scale' = newScale /\ currentPage' = newPage
  /\ effectPending' = (effectPending \/ newScale # scale \/ newPage # currentPage)
  /\ UNCHANGED <<highlightedReference, rendering, navPending, job, canvas, viewerError>>
  /\ UNCHANGED <<content, messageReferences, parts, segVars, findVars, storeVars,
                 searchVars, genVars, chatVars>>

goToPreviousPage == UiStep(scale, IF currentPage > 1 THEN currentPage - 1 ELSE currentPage)
goToNextPage ==
  UiStep(scale, IF currentPage < ViewerPages THEN currentPage + 1 ELSE currentPage)
zoomIn == UiStep(QMin({QAdd(scale, <<1, 4>>), <<3, 1>>}), currentPage)
zoomOut == UiStep(QMax({QSub(scale, <<1, 4>>), <<1, 2>>}), currentPage)
fitToWidth ==
  \E clientWidth \in {232} :
    LET containerWidth == Q(clientWidth - 32, 1)
        canvasWidth == QDiv(Q(canvas.width, 1), scale)
        newScale == QDiv(containerWidth, canvasWidth)
    IN  UiStep(QMin({QMax({newScale, <<1, 2>>}), <<3, 1>>}), currentPage)

SpecViewer ==
  ViewerInit
    /\ [][\/ EffectSkipped \/ RenderStart \/ NavigationEffect
          \/ PageLoaded \/ RenderFails \/ PageRendered
          \/ goToPreviousPage \/ goToNextPage \/ zoomIn \/ zoomOut \/ fitToWidth]_vars

\* The viewer with its scheduling, on references without bounding box: React
\* runs an effect whose dependencies changed, and the promises of getPage and
\* of page.render settle
RenderLoopInit == ViewerInit /\ highlightedReference.boundingBox.type = "null"

SpecViewerFair ==
  RenderLoopInit
    /\ [][\/ EffectSkipped \/ RenderStart \/ NavigationEffect
          \/ PageLoaded \/ RenderFails \/ PageRendered
          \/ goToPreviousPage \/ goToNextPage \/ zoomIn \/ zoomOut \/ fitToWidth]_vars
    /\ WF_vars(EffectSkipped) /\ WF_vars(RenderStart) /\ WF_vars(NavigationEffect)
    /\ WF_vars(PageLoaded) /\ WF_vars(PageRendered \/ RenderFails)

(***************************************************************************)
(* The citation renderer: components/ChatArea.tsx,                         *)
(* renderContentWithReferences                                             *)
(*                                                                         *)
(* A span is [kind, text, number, reference, index]: kind "text" carries   *)
(* plain text, "citation" is the button of reference number `number`,      *)
(* "flagged" is the red literal of a marker without reference and "bold"   *)
(* carries the emphasised text. index is the position in the content the   *)
(* span was cut from. The references of a message are <<>> when the field  *)
(* is missing and <<list>> otherwise.                                      *)
(***************************************************************************)
Span(kind, text, number, reference, at) ==
  [kind |-> kind, text |-> text, number |-> number, reference |-> reference, index |-> at]

\* the first position at or after p that holds an asterisk or lies behind the text
RECURSIVE NonStarEnd(_, _)
NonStarEnd(text, p) ==
  IF p <= Len(text) /\ text[p] # "*" THEN NonStarEnd(text, p + 1) ELSE p

\* the alternative \*\*([^*]+)\*\* applied at position p: the position of the
\* last asterisk, or 0 when it does not match there
BoldEnd(text, p) ==
  IF p + 1 <= Len(text) /\ text[p] = "*" /\ text[p + 1] = "*"
  THEN LET q == NonStarEnd(text, p + 2)
       IN  IF q > p + 2 /\ q + 1 <= Len(text) /\ text[q] = "*" /\ text[q + 1] = "*"
           THEN q + 1 ELSE 0
  ELSE 0

\* combinedRegex.exec from position p: the position of the leftmost match, or
\* 0 when there is none
RECURSIVE NextMatch(_, _)
NextMatch(text, p) ==
  IF p > Len(text) THEN 0
  ELSE IF MatchEnd(text, p) # 0 \/ BoldEnd(text, p) # 0 THEN p
  ELSE NextMatch(text, p + 1)

\* `if (lastIndex < content.length)`: the text behind the last match
RemainingTextDropped(text, from) == <<>>

RemainingText(text, from) ==
  IF from <= Len(text)
  THEN <<Span("text", SubSeq(text, from, Len(text)), 0, <<>>, from)>> ELSE <<>>

\* the span of the match at p
MatchSpan(text, refs, p) ==
  IF MatchEnd(text, p) # 0
  THEN LET citationNumber == parseInt(SubSeq(text, p + 1, MatchEnd(text, p) - 1))
       IN  IF citationNumber >= 1 /\ citationNumber <= Len(refs)
           THEN Span("citation", <<>>, citationNumber, <<refs[citationNumber]>>, p)
           ELSE Span("flagged", SubSeq(text, p, MatchEnd(text, p)), 0, <<>>, p)
  ELSE Span("bold", SubSeq(text, p + 2, BoldEnd(text, p) - 2), 0, <<>>, p)

\* the while loop from lastIndex, and the remaining text
RECURSIVE RenderFrom(_, _, _)
RenderFrom(text, refs, from) ==
  LET p == NextMatch(text, from)
  IN  IF p = 0 THEN RemainingText(text, from)
      ELSE LET q == IF MatchEnd(text, p) # 0 THEN MatchEnd(text, p) ELSE BoldEnd(text, p)
               textBefore == IF p > from
                             THEN <<Span("text", SubSeq(text, from, p - 1), 0, <<>>, from)>>
                             ELSE <<>>
           IN  textBefore \o <<MatchSpan(text, refs, p)>> \o RenderFrom(text, refs, q + 1)

\* the default parameter `references = []` and `parts.length > 0 ? parts : content`
renderContentWithReferences(text, optionalReferences) ==
  LET refs == IF optionalReferences = <<>> THEN <<>> ELSE optionalReferences[1]
      spans == RenderFrom(text, refs, 1)
  IN  IF Len(spans) > 0 THEN spans ELSE <<Span("text", text, 0, <<>>, 1)>>

BubbleInit ==
  /\ result = [pages |-> <<>>, paragraphs |-> <<>>, tables |-> <<>>]
  /\ chunks = <<>> /\ segPc = "done"
  /\ StoresEmpty /\ SearchIdle /\ GenIdle /\ ChatIdle
  /\ highlightedReference = NoReference /\ scale = <<0, 1>> /\ currentPage = 0
  /\ rendering = FALSE /\ effectPending = FALSE /\ navPending = FALSE
  /\ job = NoJob /\ canvas = <<>> /\ viewerError = "" /\ uiSteps = 0
  /\ LET pieces == { <<"x">>, <<"[">>, <<"]">>, <<"*">>, <<"*", "*">>, <<"0">>,
                     <<"[", "1", "]">>, <<"[", "2", "]">>, <<"[", "0", "]">>,
                     <<"[", "3", "]">>, <<"[", "0", "1", "]">>,
                     <<"*", "*", "x", "*", "*">> }
     IN  content \in {Flatten(s) : s \in SeqsUpTo(pieces, MaxBubblePieces)}
  /\ messageReferences \in
       {<<>>} \cup {<<[k \in 1..n |-> [pageNumber |-> k, boundingBox |-> BoxNull]]>> :
                     n \in 0..MaxBubbleReferences}
  /\ parts = <<>>
  /\ FindIdle

\* the message bubble is rendered
RenderMessage ==
  /\ parts = <<>>
  /\ parts' = <<renderContentWithReferences(content, messageReferences)>>
  /\ UNCHANGED <<content, messageReferences, viewerVars, segVars, findVars, storeVars, searchVars,
                 genVars, chatVars>>

\* a citation button is clicked: onReferenceClick hands the reference to the viewer
ReferenceClicked ==
  /\ parts # <<>>
  /\ \E i \in 1..Len(parts[1]) :
       /\ parts[1][i].kind = "citation"
       /\ highlightedReference' = parts[1][i].reference[1]
  /\ UNCHANGED <<content, messageReferences, parts, scale, currentPage, rendering,
                 effectPending, navPending, job, canvas, viewerError, uiSteps, segVars,
                 findVars, storeVars, searchVars, genVars, chatVars>>

SpecRender == BubbleInit /\ [][RenderMessage \/ ReferenceClicked]_vars

(***************************************************************************)
(* Text search in the pages of a PDF: lib/pdf.ts, searchTextInPDF          *)
(*                                                                         *)
(* A text is a sequence of characters, positions count from 0 as in the    *)
(* code. pageTexts holds the entries of the page map in iteration order;   *)
(* extractTextByPages stores trimmed, non-empty texts only.                *)
(***************************************************************************)
MaxFindPages == 2
MaxPageText == 2
MaxSearchText == 2

Texts(lo, hi) == UNION {[1..n -> {"a", "A"}] : n \in lo..hi}

\* String.prototype.toLowerCase
toLowerCase(s) == [k \in 1..Len(s) |-> IF s[k] = "A" THEN "a" ELSE s[k]]

\* String.prototype.indexOf(sub, from): the start is clamped to the length,
\* the empty string is found at the start
indexOf(s, sub, from) ==
  LET start == Min2(from, Len(s))
      hits == {p \in start..(Len(s) - Len(sub)) : \A k \in 1..Len(sub) : s[p + k] = sub[k]}
  IN  IF Len(sub) = 0 THEN start
      ELSE IF hits = {} THEN 0 - 1
      ELSE CHOOSE p \in hits : \A q \in hits : p <= q

\* the search is called on the pages of a file
FindInit ==
  /\ result = [pages |-> <<>>, paragraphs |-> <<>>, tables |-> <<>>]
  /\ chunks = <<>> /\ segPc = "done"
  /\ StoresEmpty /\ SearchIdle /\ GenIdle /\ ChatIdle /\ UiIdle
  /\ pageTexts \in UNION {[1..n -> Texts(1, MaxPageText)] : n \in 0..MaxFindPages}
  /\ searchText \in Texts(0, MaxSearchText)
  /\ pageIndex = 1 /\ position = 0 /\ results = <<>> /\ findPc = "loop"

\* the while condition finds an occurrence: the body pushes it and advances
\* by the length of the search string
MatchFound ==
  /\ findPc = "loop" /\ pageIndex <= Len(pageTexts)
  /\ Len(results) <= MaxFindPages * MaxPageText
  /\ LET pageText == pageTexts[pageIndex]
         found == indexOf(toLowerCase(pageText), toLowerCase(searchText), position)
         start == IF found - 100 > 0 THEN found - 100 ELSE 0
         end == Min2(Len(pageText), found + Len(searchText) + 100)
     IN  /\ found # 0 - 1
         /\ results' = Append(results, [pageNumber |-> pageIndex,
                                        text |-> SubSeq(pageText, start + 1, end),
                                        position |-> found])
         /\ position' = found + Len(searchText)
  /\ UNCHANGED <<pageTexts, searchText, pageIndex, findPc>>
  /\ UNCHANGED <<uiVars, segVars, storeVars, searchVars, genVars, chatVars>>

\* the loop goes on finding a match after more results than the pages have
\* positions: it never ends, results grows until the allocation fails and the
\* process is aborted
ResultsExhaustMemory ==
  /\ findPc = "loop" /\ pageIndex <= Len(pageTexts)
  /\ Len(results) > MaxFindPages * MaxPageText
  /\ indexOf(toLowerCase(pageTexts[pageIndex]), toLowerCase(searchText), position) # 0 - 1
  /\ findPc' = "aborted"
  /\ UNCHANGED <<pageTexts, searchText, pageIndex, position, results>>
  /\ UNCHANGED <<uiVars, segVars, storeVars, searchVars, genVars, chatVars>>

\* the while condition finds no further occurrence: on to the next page
PageExhausted ==
  /\ findPc = "loop" /\ pageIndex <= Len(pageTexts)
  /\ indexOf(toLowerCase(pageTexts[pageIndex]), toLowerCase(searchText), position) = 0 - 1
  /\ pageIndex' = pageIndex + 1
  /\ position' = 0
  /\ UNCHANGED <<pageTexts, searchText, results, findPc>>
  /\ UNCHANGED <<uiVars, segVars, storeVars, searchVars, genVars, chatVars>>

\* the loop over the pages is over: return results
FindReturns ==
  /\ findPc = "loop" /\ pageIndex > Len(pageTexts)
  /\ findPc' = "done"
  /\ UNCHANGED <<pageTexts, searchText, pageIndex, position, results>>
  /\ UNCHANGED <<uiVars, segVars, storeVars, searchVars, genVars, chatVars>>

\* the function runs to its next step whenever it has one
SpecFind ==
  FindInit
    /\ [][MatchFound \/ ResultsExhaustMemory \/ PageExhausted \/ FindReturns]_vars
    /\ WF_vars(MatchFound \/ ResultsExhaustMemory \/ PageExhausted \/ FindReturns)

(***************************************************************************)
(* Properties                                                              *)
(***************************************************************************)
LastMessageId == messages[Len(messages)].id

\* the (pageNumber, readingOrder) key of a context item, read from its row
ContextKeyLess(a, b) ==
  LET ra == CHOOSE row \in dbChunks : row.id = a.chunkId
      rb == CHOOSE row \in dbChunks : row.id = b.chunkId
  IN  \/ ra.pageNumber < rb.pageNumber
      \/ ra.pageNumber = rb.pageNumber /\ ra.readingOrder < rb.readingOrder

\* a bracketed run of decimal digits that denotes n occupies text[p..q]
\* (leading zeros do not change the number denoted)
DenotesAt(text, p, q, n) ==
  /\ text[p] = "[" /\ text[q] = "]" /\ q > p + 1
  /\ \A k \in (p + 1)..(q - 1) : text[k] \in Digits
  /\ \E z \in p..(q - 2) :
       /\ \A k \in (p + 1)..z : text[k] = "0"
       /\ IF n < 10 THEN z = q - 2 /\ DigitValue(text[q - 1]) = n
          ELSE z = q - 3 /\ DigitValue(text[q - 2]) = n \div 10
                         /\ DigitValue(text[q - 1]) = n % 10

MarkerOccurs(text, n) ==
  \E p \in 1..Len(text), q \in 1..Len(text) : p < q /\ DenotesAt(text, p, q, n)

\* some bracketed run of decimal digits occurs in the text
ContainsMarker(text) ==
  \E p \in 1..Len(text), q \in 1..Len(text) :
    /\ p + 1 < q /\ text[p] = "[" /\ text[q] = "]"
    /\ \A k \in (p + 1)..(q - 1) : text[k] \in Digits

\* C1: a returned reference list has one entry per context item, entry i
\* carrying the chunkId and page of context item i, and the route stores
\* entry i under citationIndex i (1-based), cited in the answer or not
C1_ReferencesAlignWithContext ==
  /\ gPc = "returned" =>
       /\ Len(references) = Len(gArgs.context)
       /\ \A i \in 1..Len(references) :
            /\ references[i].chunkId = gArgs.context[i].chunkId
            /\ references[i].pageNumber = gArgs.context[i].pageNumber
  /\ pc \in {"done", "loaded"} =>
       LET rows == {r \in refRows : r.messageId = LastMessageId}
       IN  /\ Cardinality(rows) = Len(context)
           /\ \A i \in 1..Len(context) :
                \E r \in rows : /\ r.citationIndex = i
                                /\ r.chunkId = context[i].chunkId
                                /\ r.pageNumber = context[i].pageNumber

C1_Witness ==
  /\ pc = "done" /\ Len(context) = 3 /\ ~MarkerOccurs(answer, 2)
  /\ MarkerOccurs(answer, 1)
  /\ \E r \in refRows : r.citationIndex = 2 /\ r.relevance = 0

\* C2: in every delivery of the answer (chat response, later load of the
\* conversation) the reference at list position n is the one stored with
\* citationIndex n
C2_PositionIsCitationIndex ==
  /\ pc \in {"done", "loaded"} =>
       \A n \in 1..Len(response.references) : response.references[n].citationIndex = n
  /\ pc = "loaded" =>
       \A n \in 1..Len(loaded.references) : loaded.references[n].citationIndex = n

\* C3: entry i of the returned references has relevance 1 exactly when the
\* bracketed numeral for i occurs in the final answer text
C3_RelevanceIffMarkerOccurs ==
  gPc = "returned" =>
    \A i \in 1..Len(references) :
      references[i].relevance = (IF MarkerOccurs(answer, i) THEN 1 ELSE 0)

C3_Witness ==
  /\ gPc = "returned" /\ Len(gArgs.context) = 5
  /\ answer = Cite(<<"1">>) \o Cite(<<"3">>)
  /\ [i \in 1..5 |-> references[i].relevance] = <<1, 0, 1, 0, 0>>

\* C4: one completion request per answer, a second one exactly when the first
\* reply holds no marker and the context is non-empty, never a third; after a
\* follow-up the returned text is the follow-up, or the first reply when the
\* follow-up is empty, with the full reference list
C4_OneCorrectiveFollowUp ==
  /\ llmCalls <= 2
  /\ llmCalls = 2 => ~ContainsMarker(firstReply) /\ Len(gArgs.context) > 0
  /\ gPc = "returned" =>
       /\ llmCalls >= 1
       /\ (~ContainsMarker(firstReply) /\ Len(gArgs.context) > 0) => llmCalls = 2
       /\ llmCalls = 1 => answer = firstReply
       /\ llmCalls = 2 => answer = (IF retryReply = <<>> THEN firstReply ELSE retryReply)
       /\ Len(references) = Len(gArgs.context)

C4_Witness ==
  /\ gPc = "returned" /\ llmCalls = 2 /\ ~ContainsMarker(answer)
  /\ retryReply = <<>> /\ answer = <<"x">> /\ Len(references) = 3

\* C5: the readingOrder values of the emitted chunks are exactly 0..n-1
C5_ReadingOrderContiguous ==
  segPc = "done" => \A i \in 1..Len(chunks) : chunks[i].readingOrder = i - 1

\* C8: the list returned by searchWithContext holds no chunk id twice
C8_NoDuplicateIds ==
  sPc = "returned" =>
    \A i, j \in 1..Len(sResult) : i # j => sResult[i].id # sResult[j].id

C8_Witness ==
  /\ sPc = "returned" /\ sPath = "expanded" /\ Len(matches) = 2 /\ sArgs.contextWindow = 1
  /\ matches[1].metadata.chunkIndex + 1 = matches[2].metadata.chunkIndex
  /\ Len(sResult) = 3

\* C6: the first completion request carries the instruction block, the at
\* most 5 most recent messages stored before the question, and the question
C6_HistoryIsLastFive ==
  sent # <<>> =>
    sent = <<[role |-> "system", content |-> 0]>>
             \o LastN(HistoryOf(SubSeq(messages, 1, gArgs.question - 1)), 5)
             \o <<[role |-> "user", content |-> gArgs.question]>>

\* C7: with topK = 1, window w and no failed fetch, the expanded result is
\* exactly the stored chunks whose readingOrder lies within w of the
\* match's readingOrder, sorted by readingOrder
C7_WindowByReadingOrder ==
  (sPc = "returned" /\ sPath = "expanded" /\ sArgs.topK = 1 /\ fetchErrors = 0) =>
    LET i == matches[1].metadata.readingOrder
        w == sArgs.contextWindow
        expected == {v \in index : /\ v.ns = sArgs.documentId
                                   /\ v.metadata.readingOrder >= i - w
                                   /\ v.metadata.readingOrder <= i + w}
    IN  /\ {sResult[k].id : k \in 1..Len(sResult)} = {v.id : v \in expected}
        /\ Len(sResult) = Cardinality(expected)
        /\ \A k \in 1..(Len(sResult) - 1) :
             sResult[k].metadata.readingOrder < sResult[k + 1].metadata.readingOrder

\* C9: the context handed to the generator ascends by (pageNumber,
\* readingOrder), whichever path produced the search result
C9_ContextInDocumentOrder ==
  pc = "generate" =>
    \A i \in 1..Len(context), j \in 1..Len(context) :
      i < j => ContextKeyLess(context[i], context[j])

\* C10 as stated: a failure of the initial query never fails the request
C10_RequestSurvivesQueryFailure == ~(pc = "failed" /\ sPc = "threw")

\* C10 as amended: after a failed initial query exactly the plain top-K query
\* is made; its matches are returned unexpanded and the request goes on to
\* generation with them; searchWithContext rejects only when that second
\* query failed too
C10_FallbackThenProceed ==
  /\ [](sPc = "threw" => sPath = "fallback")
  /\ []((sPc = "returned" /\ sPath = "fallback") =>
          sResult \in QueryResponses(sArgs.documentId, sArgs.topK))
  /\ [][(pc = "search" /\ sPc = "returned" /\ sPath = "fallback") =>
          (pc' = "generate" /\ gPc' = "first"
           /\ gArgs'.context = BuildContext(sResult, dbChunks))]_vars

C10_Witness ==
  /\ pc = "generate" /\ sPath = "fallback" /\ Len(context) = 2
  /\ ~ContextKeyLess(context[1], context[2])

\* C11: retrieval for the document of a conversation returns vectors of that
\* document only, and every stored reference of an answer names a stored
\* chunk row of the document of the conversation the question was asked in.
C11_ReferencesStayInTheDocument ==
  /\ \A i \in 1..Len(expandedChunks) :
       expandedChunks[i].metadata.documentId = sArgs.documentId
  /\ sPc = "returned" =>
       \A i \in 1..Len(sResult) : sResult[i].metadata.documentId = conversation.documentId
  /\ \A i \in 1..Len(context) :
       \E row \in dbChunks :
         row.id = context[i].chunkId /\ row.documentId = conversation.documentId
  /\ \A r \in refRows :
       \E row \in dbChunks :
         row.id = r.chunkId /\ row.documentId = conversation.documentId

\* a question on the second document was answered with references while the
\* first document has chunks too
C11_Witness ==
  /\ pc = "done" /\ conversation.documentId = 2
  /\ Cardinality(refRows) = 2
  /\ \E row \in dbChunks : row.documentId = 1

(***************************************************************************)
(* Properties of ingestion                                                 *)
(***************************************************************************)
VectorsOf(documentId) == {v \in index : v.ns = documentId}
RowsOf(documentId) == {r \in dbChunks : r.documentId = documentId}
Succeeded(u) == uploads[u].pc = "done"

\* C12: after a successful ingestion the chunk at position p of the segmenter
\* output has exactly one vector, under id <documentId>-chunk-<p>, whose
\* metadata holds chunkIndex p and the chunk's text, and exactly one row, with
\* pineconeId <documentId>-chunk-<p> and chunkIndex p; the id built from a
\* vector's metadata index plus an offset names the chunk that many places
\* away.
C12_IdsDenoteThePosition ==
  \A u \in Uploads :
    Succeeded(u) =>
      LET d == uploads[u].document
          cs == uploads[u].extractedChunks
      IN  \A p \in 0..(Len(cs) - 1) :
            LET vs == {v \in VectorsOf(d) : v.id = VectorId(d, p)}
                rs == {r \in RowsOf(d) : r.pineconeId = VectorId(d, p)}
            IN  /\ Cardinality(vs) = 1 /\ Cardinality(rs) = 1
                /\ \A v \in vs :
                     /\ v.metadata.chunkIndex = p
                     /\ v.metadata.text = cs[p + 1].text
                     /\ v.metadata.readingOrder = cs[p + 1].readingOrder
                     /\ \A o \in ((0 - 2)..2) :
                          (p + o >= 0 /\ p + o < Len(cs)) =>
                            \E w \in VectorsOf(d) :
                              /\ w.id = VectorId(d, v.metadata.chunkIndex + o)
                              /\ w.metadata.text = cs[p + o + 1].text
                /\ \A r \in rs : r.chunkIndex = p /\ r.content = cs[p + 1].text

\* an ingestion of a file that needs several embedding batches and a second
\* upsert has succeeded; readingOrder and position differ at the last chunk
C12_Witness ==
  /\ Succeeded(1) /\ uploads[1].file = MaxIngestChunks
  /\ \E v \in VectorsOf(uploads[1].document) :
       /\ v.metadata.chunkIndex = MaxIngestChunks - 1
       /\ v.metadata.readingOrder = MaxIngestChunks

\* C13: when an upload request has answered with its error after a step that
\* follows the creation of the document row failed, no Document row and no
\* DocumentChunk row of that upload is left.
C13_NoRowsAfterFailedUpload ==
  \A u \in Uploads :
    (uploads[u].pc = "failed" /\ uploads[u].failedAt # "create") =>
      /\ uploads[u].document \notin documents
      /\ RowsOf(uploads[u].document) = {}

\* C14: once an embedding call of an ingestion failed no further embedding
\* request is made for it and it has no vector and no chunk row; in every
\* ingestion the first upsert follows the last embedding batch and the chunk
\* rows follow the last upsert.
C14_EmbeddingFailureStopsIngestion ==
  /\ [](\A u \in Uploads :
          LET up == uploads[u]
          IN  /\ up.failedAt = "embed" =>
                   VectorsOf(up.document) = {} /\ RowsOf(up.document) = {}
              /\ (up.document # 0 /\ VectorsOf(up.document) # {}) =>
                   Len(up.chunksWithEmbeddings) = Len(up.extractedChunks)
              /\ (up.document # 0 /\ RowsOf(up.document) # {}) =>
                   /\ up.upserted = Len(up.extractedChunks)
                   /\ Cardinality(VectorsOf(up.document)) = Len(up.extractedChunks))
  /\ [][\A u \in Uploads :
          uploads[u].failedAt = "embed" =>
            /\ uploads'[u].embedCalls = uploads[u].embedCalls
            /\ uploads'[u].pc \in {"rollback", "failed"}]_vars

\* the third embedding batch of a long file failed and the request answered
C14_Witness ==
  /\ uploads[1].pc = "failed" /\ uploads[1].failedAt = "embed"
  /\ uploads[1].file = MaxIngestChunks /\ uploads[1].embedCalls = 3
  /\ Len(uploads[1].chunksWithEmbeddings) = 2 * EmbedBatchSize

\* C15: after a successful ingestion of n chunks exactly n vectors are stored
\* for the document and the vector under <documentId>-chunk-<p> is the
\* embedding of the text of chunk p.
C15_VectorsAlignWithEmbeddings ==
  \A u \in Uploads :
    Succeeded(u) =>
      LET d == uploads[u].document
          cs == uploads[u].extractedChunks
      IN  /\ Cardinality(VectorsOf(d)) = Len(cs)
          /\ \A p \in 0..(Len(cs) - 1) :
               \E v \in VectorsOf(d) :
                 v.id = VectorId(d, p) /\ v.values = Embedding(cs[p + 1].text)

\* a file of one full batch and one more chunk has been ingested: the chunk
\* after the batch boundary is stored under position EmbedBatchSize
C15_Witness ==
  /\ Succeeded(1) /\ uploads[1].file = EmbedBatchSize + 1
  /\ uploads[1].embedCalls = 2
  /\ \E v \in VectorsOf(uploads[1].document) :
       /\ v.id = VectorId(uploads[1].document, EmbedBatchSize)
       /\ v.values = Embedding(FileChunks(EmbedBatchSize + 1)[EmbedBatchSize + 1].text)

\* What the stores hold for the document of an upload
PartOf(u) ==
  LET d == u
  IN  [vectors |-> VectorsOf(d), rows |-> RowsOf(d), document |-> d \in documents,
       conversations |-> {c \in conversations : c.documentId = d},
       upload |-> uploads[u]]

\* C16: a step of one ingestion leaves the vectors, rows, document and
\* conversation of the other document as they are, and a successful
\* ingestion ends with the vectors and chunk rows of its file alone, whatever
\* the other ingestion did meanwhile.
C16_IngestionsAreIndependent ==
  /\ [](\A u \in Uploads :
          Succeeded(u) =>
            LET d == uploads[u].document
                cs == FileChunks(uploads[u].file)
            IN  /\ {[ns |-> v.ns, id |-> v.id, metadata |-> v.metadata] : v \in VectorsOf(d)}
                     = UploadedVectors(d, cs)
                /\ RowsOf(d) = ChunkRows(d, cs)
                /\ \A v \in index : v.ns \in {w : w \in Uploads})
  /\ [][\A u, w \in Uploads :
          (u # w /\ uploads'[u] # uploads[u]) => PartOf(w)' = PartOf(w)]_vars

\* both ingestions succeeded with files of more than one batch
C16_Witness ==
  /\ Succeeded(1) /\ Succeeded(2)
  /\ uploads[1].file = EmbedBatchSize + 1 /\ uploads[2].file = EmbedBatchSize + 1
  /\ Cardinality(index) = 2 * (EmbedBatchSize + 1)
  /\ Cardinality(dbChunks) = 2 * (EmbedBatchSize + 1)

(***************************************************************************)
(* Properties of the viewer                                                *)
(***************************************************************************)
\* the polygon the highlighted reference carries, <<>> when it carries none
ReferencePolygon ==
  LET box == highlightedReference.boundingBox
  IN  IF box.type = "array" \/ (box.type = "string" /\ box.text = "array")
      THEN box.value ELSE <<>>

\* C17: the rectangle drawn for a polygon of 8 numbers at scale s on a viewport
\* of height H is the axis-aligned bounding box of the points
\* (x * s, (H / s - y) * s); [0,0,100,0,100,50,0,50] gives {0, 0, 100, 50} at
\* s = 1, H = 50 and {0, 0, 200, 100} at s = 2, H = 100
C17_HighlightIsTheBoundingBox ==
  canvas.highlight # <<>> =>
    LET r == canvas.highlight[1]
        s == canvas.scale
        H == canvas.viewportHeight
        \* the point k of the polygon on the canvas: (x * s, H - y * s)
        X(k) == QMul(Q(ReferencePolygon[2 * k - 1], 1), s)
        Y(k) == QSub(H, QMul(Q(ReferencePolygon[2 * k], 1), s))
        right == QAdd(r.x, r.width)
        bottom == QAdd(r.y, r.height)
        example == ReferencePolygon = <<0, 0, 100, 0, 100, 50, 0, 50>>
    IN  /\ Len(ReferencePolygon) >= 8
        /\ \A k \in 1..4 : /\ QLe(r.x, X(k)) /\ QLe(X(k), right)
                            /\ QLe(r.y, Y(k)) /\ QLe(Y(k), bottom)
        /\ \E k \in 1..4 : X(k) = r.x
        /\ \E k \in 1..4 : X(k) = right
        /\ \E k \in 1..4 : Y(k) = r.y
        /\ \E k \in 1..4 : Y(k) = bottom
        /\ example /\ s = <<1, 1>> /\ H = <<50, 1>>
             => r = [x |-> <<0, 1>>, y |-> <<0, 1>>, width |-> <<100, 1>>,
                     height |-> <<50, 1>>]
        /\ example /\ s = <<2, 1>> /\ H = <<100, 1>>
             => r = [x |-> <<0, 1>>, y |-> <<0, 1>>, width |-> <<200, 1>>,
                     height |-> <<100, 1>>]

C17_Witness ==
  /\ ReferencePolygon = <<0, 0, 100, 0, 100, 50, 0, 50>>
  /\ canvas.rendered /\ canvas.scale = <<2, 1>> /\ canvas.viewportHeight = <<100, 1>>
  /\ canvas.highlight = <<[x |-> <<0, 1>>, y |-> <<0, 1>>, width |-> <<200, 1>>,
                           height |-> <<100, 1>>]>>

\* C18: for a reference without a polygon, with a polygon of fewer than 8
\* numbers or with a stored bounding box that cannot be parsed (the reference
\* polygon of all three is shorter than 8), no rectangle is
\* drawn and no exception escapes: the page render completes without an error
\* message, the viewer is ready for the next render, and
\* getBoundingBoxCoordinates answers null
C18_MalformedBoxDrawsNothing ==
  /\ [](highlightedReference # NoReference /\ Len(ReferencePolygon) < 8
          => /\ canvas.highlight = <<>>
             /\ getBoundingBoxCoordinates(
                  IF highlightedReference.boundingBox.type = "null" THEN BoxNull
                  ELSE [type |-> "array", text |-> "", value |-> ReferencePolygon]) = <<>>)
  /\ [][highlightedReference # NoReference /\ Len(ReferencePolygon) < 8
          /\ job.pc = "render" /\ canvas'.rendered
          => /\ viewerError' = viewerError
             /\ ~rendering' /\ effectPending'
             /\ canvas'.page = job.page /\ canvas'.scale = job.scale]_vars

C18_Witness ==
  /\ highlightedReference.boundingBox = JSONstringify(<<0, 0, 100, 0, 100, 50>>)
  /\ highlightedReference.pageNumber = currentPage
  /\ canvas.rendered /\ canvas.page = currentPage /\ canvas.highlight = <<>>
  /\ viewerError = "" /\ ~rendering

(***************************************************************************)
(* Properties of the citation renderer                                     *)
(***************************************************************************)
\* the spans, read in order from position p of the text, spell the rest of the
\* text: a text span and a flagged span stand for their characters, a bold
\* span for its text between two pairs of asterisks, a citation span for a
\* bracketed numeral of its number
RECURSIVE Reconstructs(_, _, _)
Reconstructs(spans, text, p) ==
  IF spans = <<>> THEN p = Len(text) + 1
  ELSE LET h == Head(spans)
           literal == IF h.kind = "bold" THEN <<"*", "*">> \o h.text \o <<"*", "*">>
                      ELSE h.text
       IN  IF h.kind = "citation"
           THEN /\ MatchEnd(text, p) # 0
                /\ parseInt(SubSeq(text, p + 1, MatchEnd(text, p) - 1)) = h.number
                /\ Reconstructs(Tail(spans), text, MatchEnd(text, p) + 1)
           ELSE /\ p + Len(literal) - 1 <= Len(text)
                /\ SubSeq(text, p, p + Len(literal) - 1) = literal
                /\ Reconstructs(Tail(spans), text, p + Len(literal))

\* C19: the spans of a rendered message, read in order with a citation span
\* standing for its [n] marker and a bold span for its **text**, reproduce the
\* message text: nothing is lost, duplicated or reordered
C19_SpansReproduceTheText ==
  parts # <<>> => Reconstructs(parts[1], content, 1)

C19_Witness ==
  /\ content = <<"[", "1", "]", "*", "*", "x", "*", "*", "x">>
  /\ parts # <<>>
  /\ Len(parts[1]) = 3
  /\ parts[1][1].kind = "citation" /\ parts[1][2].kind = "bold" /\ parts[1][3].kind = "text"

\* C20: every [n] marker of the message for which the reference list has no
\* entry at position n-1 is emitted as a flagged literal span carrying the
\* marker text, no citation button is made without a reference, and the rest
\* of the message is rendered
C20_MissingReferenceIsFlagged ==
  parts # <<>> =>
    LET refs == IF messageReferences = <<>> THEN <<>> ELSE messageReferences[1]
        spans == parts[1]
    IN  /\ \A p \in 1..Len(content) :
             MatchEnd(content, p) # 0
               /\ parseInt(SubSeq(content, p + 1, MatchEnd(content, p) - 1))
                    \notin 1..Len(refs)
               => \E i \in 1..Len(spans) :
                    spans[i] = Span("flagged", SubSeq(content, p, MatchEnd(content, p)),
                                    0, <<>>, p)
        /\ \A i \in 1..Len(spans) :
             spans[i].kind = "citation"
               => /\ spans[i].number \in 1..Len(refs)
                  /\ spans[i].reference = <<refs[spans[i].number]>>
        /\ Reconstructs(spans, content, 1)

(***************************************************************************)
(* Properties of the whole pipeline                                        *)
(***************************************************************************)
\* C21: an analysis result with no page or with no usable block gives no
\* chunk; its ingestion asks for no embedding and no upsert, writes no chunk
\* row and no vector and can complete with its conversation; a question on
\* that conversation gets an empty context, one completion request and an
\* answer without references
C21_EmptyDocumentIsServed ==
  (\A k \in 1..Len(result.paragraphs) :
      result.paragraphs[k].role = "footnote" \/ result.paragraphs[k].content = " ")
    => /\ index = {} /\ dbChunks = {}
       /\ \A u \in Uploads :
            /\ uploads[u].extractedChunks = <<>>
            /\ uploads[u].embedCalls = 0 /\ uploads[u].upserted = 0
            /\ uploads[u].failedAt \notin {"embed", "upsert"}
            /\ Succeeded(u) =>
                 [id |-> uploads[u].document, documentId |-> uploads[u].document]
                   \in conversations
       /\ pc \in {"generate", "done"} => context = <<>> /\ sResult = <<>>
       /\ llmCalls <= 1
       /\ pc = "done" => /\ response.references = <<>> /\ refRows = {}
                         /\ references = <<>> /\ llmCalls = 1

C21_Witness ==
  /\ Len(result.pages) > 0
  /\ \A k \in 1..Len(result.paragraphs) : result.paragraphs[k].role = "footnote"
  /\ Succeeded(1)
  /\ pc = "done" /\ response.references = <<>> /\ llmCalls = 1

(***************************************************************************)
(* Properties of context expansion                                         *)
(***************************************************************************)
\* C22: in an expanded result every neighbor scores lower than every direct
\* match of the same result
C22_NeighborsScoreBelowMatches ==
  (sPc = "returned" /\ sPath = "expanded") =>
    LET direct == {matches[k].id : k \in 1..Len(matches)}
    IN  \A i, j \in 1..Len(sResult) :
          (sResult[i].id \notin direct /\ sResult[j].id \in direct)
            => sResult[i].score < sResult[j].score

\* C23: within one search no neighbor id is fetched twice, whatever the first
\* fetch of it gave
C23_EachNeighborFetchedOnce ==
  \A i, j \in 1..Len(attempts) : i # j => attempts[i].id # attempts[j].id

\* C24: once the initial query succeeded, fetches that fail or find nothing
\* neither reject the search nor send it to the fallback query; the result
\* is every direct match as the query gave it and every neighbor whose fetch
\* found a record, ordered by the comparator of the sort
C24_FailedFetchesAreSkipped ==
  /\ [][sPc = "expand" => (sPc' \in {"expand", "returned"} /\ sPath' \in {"none", "expanded"})]_vars
  /\ []((sPc = "returned" /\ sPath = "expanded") =>
         LET found == {attempts[k].id : k \in {a \in 1..Len(attempts) :
                                                attempts[a].outcome = "found"}}
         IN  /\ \A k \in 1..Len(matches) : \E i \in 1..Len(sResult) : sResult[i] = matches[k]
             /\ {sResult[i].id : i \in 1..Len(sResult)}
                  = {matches[k].id : k \in 1..Len(matches)} \cup found
             /\ Len(sResult) = Len(matches) + Cardinality(found)
             /\ \A i \in 1..(Len(sResult) - 1) : ~DocOrderLess(sResult[i + 1], sResult[i]))

C24_Witness ==
  /\ sPc = "returned" /\ sPath = "expanded"
  /\ \E a, b \in 1..Len(attempts) :
       attempts[a].outcome = "failed" /\ attempts[b].outcome = "found"
  /\ Len(sResult) = Len(matches) + 1

\* C26: every error that searchWithContext catches and does not rethrow (a
\* failed neighbor fetch, a failed initial query) leaves a log entry
C26_CaughtErrorsAreLogged ==
  LET caughtQueries == IF sPc = "fallback" \/ sPath = "fallback" THEN 1 ELSE 0
      contextEntries == SelectSeq(sLog, LAMBDA e : e = "Error searching with context:")
  IN  /\ Len(contextEntries) = caughtQueries
      /\ Len(sLog) >= fetchErrors + caughtQueries

(***************************************************************************)
(* Properties of paragraph chunks                                          *)
(***************************************************************************)
\* C25: a paragraph with text whose role contains 'title' or 'heading' gives
\* a heading chunk on its page whose level is 1 for a title role, else the
\* digit in the role, else 3; a footnote, a page number and a paragraph
\* without text give no chunk
C25_HeadingLevelFromRole ==
  segPc = "done" =>
    /\ \A k \in 1..Len(result.paragraphs) :
         LET p == result.paragraphs[k]
             level == IF p.role = "title" THEN 1 ELSE IF p.role = "heading2" THEN 2 ELSE 3
         IN  (p.content = "t" /\ p.role \in {"title", "heading2"}) =>
               \E i \in 1..Len(chunks) :
                 /\ chunks[i].pageNumber = p.page /\ chunks[i].chunkType = "heading"
                 /\ chunks[i].headingLevel = level
    /\ Len(chunks) =
         Cardinality({k \in 1..Len(result.paragraphs) :
                        /\ result.paragraphs[k].content = "t"
                        /\ result.paragraphs[k].role \notin {"footnote", "pageNumber"}})
         + Cardinality({k \in 1..Len(result.tables) : result.tables[k].cells > 0})

(***************************************************************************)
(* Properties of failed requests                                           *)
(***************************************************************************)
\* C27: when an ingestion has failed, at whatever step, the index holds no
\* vector in the namespace of its document
C27_NoVectorsAfterFailedIngestion ==
  \A u \in Uploads :
    (uploads[u].pc = "failed" /\ uploads[u].document # 0) => VectorsOf(uploads[u].document) = {}

\* C28: a chat request that failed leaves no question without its answer,
\* and the assistant message of a request has one stored reference for every
\* context item it was generated from
C28_AnswerStoredWithQuestion ==
  /\ pc = "failed" => messages[Len(messages)].role # "user"
  /\ \A k \in 1..Len(messages) :
       (gPc = "returned" /\ messages[k].role = "assistant"
          /\ messages[k].id = gArgs.question + 1)
         => Cardinality({r \in refRows : r.messageId = messages[k].id}) = Len(gArgs.context)

(***************************************************************************)
(* Properties of the render effect                                         *)
(***************************************************************************)
\* C29: the page, the scale and the reference change finitely often; from
\* some point on no render is under way and the render effect is not due
\* again
C29_RendersSettle == <>[](~rendering /\ ~effectPending /\ job = NoJob)

(***************************************************************************)
(* Properties of the text search                                           *)
(***************************************************************************)
\* C30: searchTextInPDF returns for every page text and every search string,
\* the empty one included
C30_SearchTerminates == <>(findPc = "done")

====
